---- MODULE Spec2Model ----
(***************************************************************************)
(* A model of src/bin/pg_autoctl/pgctl.c: the functions that drive the     *)
(* PostgreSQL tooling (pg_ctl, pg_basebackup, ...) and maintain the        *)
(* generated configuration files.                                          *)
(*                                                                         *)
(* Every function of pgctl.c is an operator that maps the state it reads   *)
(* and the results of the external calls it makes (exit codes and output   *)
(* of the programs it runs, success or failure of the file primitives it   *)
(* checks) to its return value, the state it leaves and the ordered trace  *)
(* of the external calls it made.  An action draws those results from      *)
(* small sets and applies the operator.                                    *)
(*                                                                         *)
(* Text is a sequence of chunks: where lengths matter (connection strings, *)
(* escaping) every chunk is one character.  A file is a sequence of lines, *)
(* a line the sequence of the chunks written before its newline.           *)
(***************************************************************************)
EXTENDS Integers, Sequences, FiniteSets, TLC

VARIABLES
    files,      \* the configuration files, by path
    pgdata,     \* the data directory
    backupdir,  \* the staging directory of pg_basebackup
    env,        \* the process environment (setenv)
    keeper,     \* the node's setup: control version and replication source,
                \* or the handle that config_find_pg_ctl resolves
    active,     \* the pg_controldata call that has not returned yet, if any
    last,       \* the last call: function, arguments, result, trace
    pre,        \* the state the last call started from
    prev        \* the call before the last one

vars == <<files, pgdata, backupdir, env, keeper, active, last, pre, prev>>

(***************************************************************************)
(* Bounds of the model.                                                    *)
(***************************************************************************)
\* appends to startup.log that a behaviour may make
MaxLog == 2
\* characters of a string handed to escape_recovery_conf_string
MaxStr == 3
\* destination sizes tried for escape_recovery_conf_string: 0..MaxDest
MaxDest == 8
\* lines of a postgresql.conf the behaviour starts from
MaxConf == 1
\* runs of the pg_controldata tool that one call is followed through
MaxRuns == 3
\* binaries that search_pathlist may find
MaxFound == 2
\* sizes of the pg_ctl and pg_version buffers of the handle, larger than the
\* paths and versions tried
MAXPGPATH == 8
PG_VERSION_STRING_MAX == 8
\* the size of the buffers of defaults.h (BUFSIZE and MAXCONNINFO, both 1024
\* there), scaled down to the connection strings of the model
BUFSIZE == 34
MAXCONNINFO == 34

(***************************************************************************)
(* Constants of pgctl.c.                                                   *)
(***************************************************************************)
PROGRAM_NOT_RUNNING == 3
PG12_CONTROL_VERSION == 1200

AUTOCTL_DEFAULTS_CONF_FILENAME == "postgresql-auto-failover.conf"
AUTOCTL_CONF_INCLUDE_LINE == "include 'postgresql-auto-failover.conf'"
AUTOCTL_CONF_INCLUDE_REGEX == "^include 'postgresql-auto-failover\\.conf'.*"
AUTOCTL_CONF_INCLUDE_COMMENT == " # Auto-generated by pg_auto_failover, do not remove\n"
AUTOCTL_STANDBY_CONF_FILENAME == "postgresql-auto-failover-standby.conf"
AUTOCTL_SB_CONF_INCLUDE_LINE == "include 'postgresql-auto-failover-standby.conf'"
AUTOCTL_SB_CONF_INCLUDE_REGEX == "^include 'postgresql-auto-failover-standby\\.conf'.*"

\* the path handed in as configFilePath
POSTGRESQL_CONF == "postgresql.conf"

\* a NULL char pointer
NULL == <<"<NULL>">>

(***************************************************************************)
(* Files and directories (file_utils.c, outside pgctl.c).                  *)
(***************************************************************************)
Absent == [exists |-> FALSE, lines |-> <<>>]
FileOf(lines) == [exists |-> TRUE, lines |-> lines]

\* a directory that does not exist, and one that exists and is empty
NoDir == [exists |-> FALSE, base |-> "", startup_log |-> Absent,
          standby_signal |-> Absent, recovery_conf |-> Absent,
          recovery_done |-> Absent]
EmptyDir == [NoDir EXCEPT !.exists = TRUE]

file_exists(f) == f.exists
directory_exists(d) == d.exists

\* read_file succeeds on a file that exists unless the read itself fails
read_file(f, ioOk) == f.exists /\ ioOk

\* write_file replaces the whole content, or fails and leaves the file alone
write_file(f, lines, ioOk) == IF ioOk THEN FileOf(lines) ELSE f

\* a file inside a directory can only be written when the directory exists
write_in_dir(d, ioOk) == d.exists /\ ioOk

\* append_to_file adds the text at the end, creating the file if needed, or
\* fails and leaves the file alone
append_to_file(f, text, ioOk) == IF ioOk THEN FileOf(f.lines \o <<text>>) ELSE f

\* one external call of a trace: what was called, and on what (chunks)
Ev(e, w) == [ev |-> e, what |-> w]

\* the events of a trace that are e
Events(trace, e) == SelectSeq(trace, LAMBDA x : x.ev = e)

\* the places of a trace where an event happens
Places(trace, event) == {i \in 1..Len(trace) : trace[i] = event}

(***************************************************************************)
(* log_program_output, pgctl.c:578-597                                     *)
(***************************************************************************)
log_program_output(prog) ==
    (IF prog.stdout # NULL THEN <<Ev("log_info", prog.stdout)>> ELSE <<>>)
    \o (IF prog.stderr # NULL
        THEN (IF prog.returnCode = 0
              THEN <<Ev("log_info", prog.stderr)>>
              ELSE <<Ev("log_error", prog.stderr)>>)
        ELSE <<>>)

(***************************************************************************)
(* The record of a call, and the step every action takes.                  *)
(*   in:  the arguments the caller passed                                  *)
(*   ext: the results of the external calls the function made              *)
(***************************************************************************)
Call(op, in, ext, ret, trace) ==
    [op |-> op, in |-> in, ext |-> ext, ret |-> ret, trace |-> trace]

\* how much of a call is kept in last: the call, and what it left in the
\* buffers its caller handed in
CallOut(op, in, ext, ret, trace, out) ==
    [op |-> op, in |-> in, ext |-> ext, ret |-> ret, trace |-> trace, out |-> out]

\* the environment before any setenv of pgctl.c
NoEnv == [LANG |-> NULL, PGCONNECT_TIMEOUT |-> NULL, PGPASSWORD |-> NULL]

\* no pg_controldata call is waiting for its tool
NoActive == [missing_ok |-> FALSE, runs |-> 0, trace |-> <<>>]

\* no node configuration: the call at hand takes none
NoKeeper == [pg_control_version |-> 0,
             replicationSource |-> [primaryNode |-> [host |-> NULL, port |-> 0],
                                    userName |-> NULL, password |-> NULL,
                                    slotName |-> NULL]]

Snapshot == [files |-> files, pgdata |-> pgdata, backupdir |-> backupdir, env |-> env, keeper |-> keeper]

NoCall == Call("none", <<>>, <<>>, FALSE, <<>>)

\* what is kept of the call before a call of op with arguments in: whether
\* it was the same call, what it returned and how many files it wrote
Summary(op, in) ==
    [repeat |-> (last.op = op /\ last.in = in),
     ret |-> last.ret,
     writes |-> Len(Events(last.trace, "write_file"))]

NoSummary == [repeat |-> FALSE, ret |-> FALSE, writes |-> 0]

Record(call) ==
    /\ last' = call
    /\ pre' = Snapshot
    /\ prev' = Summary(call.op, call.in)

(***************************************************************************)
(* The programs pgctl.c runs (runprogram.h, outside pgctl.c): an exit      *)
(* code and the captured output, NULL when the program printed nothing.    *)
(***************************************************************************)
Program(rc, out, err) == [returnCode |-> rc, stdout |-> out, stderr |-> err]

\* what a program may have printed
Outputs == {NULL, <<"out">>}
StartOutputs == {NULL, <<"out1">>, <<"out2">>}

\* pg_ctl cannot succeed on a data directory that does not exist
PgCtlResults(dir, codes, outs) ==
    {p \in [returnCode : codes, stdout : outs, stderr : Outputs] :
        p.returnCode = 0 => dir.exists}

\* pg_ctl status: 0 running, 3 not running, 4 no usable data directory
StatusCodes == {0, PROGRAM_NOT_RUNNING, 4}

\* the place of a program that was not run
NotRun == Program(-1, NULL, NULL)

\* the results of pg_ctl status, when the caller gets to run it
StatusResults(dir, probed) ==
    IF probed THEN PgCtlResults(dir, StatusCodes, Outputs) ELSE {NotRun}

(***************************************************************************)
(* pg_ctl_status, pgctl.c:848-863                                          *)
(***************************************************************************)
pg_ctl_status(program, log_output) ==
    [ret |-> program.returnCode,
     trace |-> <<Ev("run_program", <<"pg_ctl status">>)>>
               \o (IF log_output THEN log_program_output(program) ELSE <<>>)]

(***************************************************************************)
(* pg_ctl_start, pgctl.c:630-766                                           *)
(***************************************************************************)
\* pgctl.c:699-752: the value of success
StartSuccess_NotRunning(startCode, statusCode) ==
    startCode = 0 \/ statusCode # PROGRAM_NOT_RUNNING

StartSuccess(startCode, statusCode) ==
    startCode = 0 \/ statusCode = 0

\* pgctl.c:758-761: the output of pg_ctl start goes to startup.log, when
\* append_to_file can write it; what append_to_file answers is not looked at
StartupLog(dir, program, appended) ==
    IF program.stdout # NULL
    THEN [dir EXCEPT !.startup_log = append_to_file(@, program.stdout, appended)]
    ELSE dir

\* appended: what append_to_file answers when it is called
pg_ctl_start(dir, program, statusProgram, appended) ==
    LET success == StartSuccess(program.returnCode, statusProgram.returnCode)
        probe ==
            IF program.returnCode # 0
            THEN <<Ev("run_program", <<"pg_ctl status">>)>>
                 \o (IF statusProgram.returnCode = 0
                     THEN (IF program.stdout # NULL
                           THEN <<Ev("log_warn", program.stdout)>> ELSE <<>>)
                          \o log_program_output(statusProgram)
                     ELSE (IF program.stdout # NULL
                           THEN <<Ev("log_error", program.stdout)>> ELSE <<>>))
            ELSE <<>>
        append ==
            IF program.stdout # NULL
            THEN <<Ev("append_to_file", <<"startup.log">>)>> ELSE <<>>
    IN  [ret |-> success,
         trace |-> <<Ev("run_program", <<"pg_ctl start">>)>> \o probe \o append,
         pgdata |-> StartupLog(dir, program, appended)]

(***************************************************************************)
(* pg_ctl_stop, pgctl.c:774-840                                            *)
(***************************************************************************)
\* pgctl.c:823-829: the status that makes a failed stop a success
StopReclassified_AnyNonZero(status) == status # 0

StopReclassified(status) == status = PROGRAM_NOT_RUNNING

\* pgctl.c:805-812: a failed stop on a missing data directory
StopMissingPgdata_Probes(dir) == FALSE

StopMissingPgdata(dir) == ~directory_exists(dir)

pg_ctl_stop(dir, program, statusProgram) ==
    LET run == <<Ev("run_program", <<"pg_ctl stop">>)>>
        status == pg_ctl_status(statusProgram, TRUE)
    IN  IF program.returnCode = 0
        THEN [ret |-> TRUE, trace |-> run]
        ELSE IF StopMissingPgdata(dir)
        THEN [ret |-> TRUE,
              trace |-> run \o <<Ev("directory_exists", <<"pgdata">>),
                                 Ev("log_info", <<"pgdata does not exists">>)>>]
        ELSE IF StopReclassified(status.ret)
        THEN [ret |-> TRUE,
              trace |-> run \o <<Ev("directory_exists", <<"pgdata">>)>>
                        \o status.trace
                        \o <<Ev("log_info", <<"PostgreSQL is not running anyway">>)>>]
        ELSE [ret |-> FALSE,
              trace |-> run \o <<Ev("directory_exists", <<"pgdata">>)>>
                        \o status.trace
                        \o <<Ev("log_info", <<"Stopping PostgreSQL server failed">>)>>
                        \o log_program_output(program)]

(***************************************************************************)
(* pg_ctl_initdb, pgctl.c:607-623: initdb creates the data directory       *)
(***************************************************************************)
pg_ctl_initdb(dir, program) ==
    [ret |-> program.returnCode = 0,
     trace |-> <<Ev("run_program", <<"pg_ctl initdb">>)>>
               \o (IF program.returnCode # 0 THEN log_program_output(program) ELSE <<>>),
     pgdata |-> IF program.returnCode = 0
                THEN [EmptyDir EXCEPT !.base = "initdb"] ELSE dir]

(***************************************************************************)
(* pg_ctl_restart, pgctl.c:869-891                                         *)
(***************************************************************************)
pg_ctl_restart(program) ==
    [ret |-> program.returnCode = 0,
     trace |-> <<Ev("run_program", <<"pg_ctl restart">>)>>
               \o (IF program.returnCode # 0 THEN log_program_output(program) ELSE <<>>)]

(***************************************************************************)
(* pg_ctl_promote, pgctl.c:897-919                                         *)
(***************************************************************************)
\* what a promotion does to the data directory of a standby: the server
\* removes standby.signal, and renames recovery.conf to recovery.done
Promoted(dir) ==
    [dir EXCEPT !.standby_signal = Absent,
                !.recovery_conf = Absent,
                !.recovery_done = IF dir.recovery_conf.exists
                                  THEN dir.recovery_conf ELSE @]

\* pg_ctl promote only succeeds on a standby: a data directory with
\* standby.signal or recovery.conf
PromoteResults(dir) ==
    {p \in [returnCode : {0, 1}, stdout : Outputs, stderr : Outputs] :
        p.returnCode = 0 =>
            /\ dir.exists
            /\ dir.standby_signal.exists \/ dir.recovery_conf.exists}

pg_ctl_promote(dir, program) ==
    [ret |-> program.returnCode = 0,
     trace |-> <<Ev("run_program", <<"pg_ctl promote">>)>>
               \o (IF program.stderr # NULL
                   THEN <<Ev("log_error", program.stderr)>> ELSE <<>>),
     pgdata |-> IF program.returnCode = 0 THEN Promoted(dir) ELSE dir]

(***************************************************************************)
(* pg_is_running, pgctl.c:1212-1216                                        *)
(***************************************************************************)
pg_is_running(statusProgram) ==
    LET status == pg_ctl_status(statusProgram, FALSE)
    IN  [ret |-> status.ret = 0, trace |-> status.trace]

(***************************************************************************)
(* The lifecycle calls as actions.                                         *)
(***************************************************************************)
PgCtlInitdb ==
    /\ ~pgdata.exists
    /\ \E program \in [returnCode : {0, 1}, stdout : Outputs, stderr : Outputs] :
         \E r \in {pg_ctl_initdb(pgdata, program)} :
             /\ pgdata' = r.pgdata
             /\ Record(Call("pg_ctl_initdb", <<>>, [program |-> program], r.ret, r.trace))
    /\ UNCHANGED <<files, backupdir, env, keeper, active>>

\* the answers of append_to_file on startup.log: it can only write in a data
\* directory that exists, and it answers nothing when it is not called
Appends(dir, program) ==
    IF program.stdout # NULL /\ dir.exists THEN BOOLEAN ELSE {FALSE}

PgCtlStart ==
    /\ Len(pgdata.startup_log.lines) < MaxLog
    /\ \E program \in PgCtlResults(pgdata, {0, 1}, StartOutputs) :
       \E statusProgram \in StatusResults(pgdata, program.returnCode # 0),
          appended \in Appends(pgdata, program) :
         \E r \in {pg_ctl_start(pgdata, program, statusProgram, appended)} :
             /\ pgdata' = r.pgdata
             /\ Record(Call("pg_ctl_start", <<>>,
                            [program |-> program, statusProgram |-> statusProgram,
                             append_to_file |-> appended],
                            r.ret, r.trace))
    /\ UNCHANGED <<files, backupdir, env, keeper, active>>

PgCtlStop ==
    /\ \E program \in PgCtlResults(pgdata, {0, 1}, Outputs) :
       \E statusProgram \in StatusResults(pgdata, program.returnCode # 0
                                                   /\ directory_exists(pgdata)) :
         \E r \in {pg_ctl_stop(pgdata, program, statusProgram)} :
             Record(Call("pg_ctl_stop", <<>>,
                         [program |-> program, statusProgram |-> statusProgram],
                         r.ret, r.trace))
    /\ UNCHANGED <<files, pgdata, backupdir, env, keeper, active>>

PgCtlRestart ==
    /\ \E program \in PgCtlResults(pgdata, {0, 1}, Outputs) :
         \E r \in {pg_ctl_restart(program)} :
             Record(Call("pg_ctl_restart", <<>>, [program |-> program],
                         r.ret, r.trace))
    /\ UNCHANGED <<files, pgdata, backupdir, env, keeper, active>>

PgCtlPromote ==
    /\ \E program \in PromoteResults(pgdata) :
         \E r \in {pg_ctl_promote(pgdata, program)} :
             /\ pgdata' = r.pgdata
             /\ Record(Call("pg_ctl_promote", <<>>, [program |-> program],
                            r.ret, r.trace))
    /\ UNCHANGED <<files, backupdir, env, keeper, active>>

PgIsRunning ==
    /\ \E statusProgram \in StatusResults(pgdata, TRUE) :
         \E r \in {pg_is_running(statusProgram)} :
             Record(Call("pg_is_running", <<>>, [statusProgram |-> statusProgram],
                         r.ret, r.trace))
    /\ UNCHANGED <<files, pgdata, backupdir, env, keeper, active>>

InitFiles == [p \in {POSTGRESQL_CONF, AUTOCTL_DEFAULTS_CONF_FILENAME,
                     AUTOCTL_STANDBY_CONF_FILENAME} |-> Absent]

InitLifecycle ==
    /\ files = InitFiles
    /\ pgdata \in
          {NoDir,
           [EmptyDir EXCEPT !.base = "initdb"],
           [EmptyDir EXCEPT !.base = "base backup 1",
                            !.standby_signal = FileOf(<<>>)],
           [EmptyDir EXCEPT !.base = "base backup 1",
                            !.recovery_conf = FileOf(<<<<"standby_mode = 'on'">>>>)]}
    /\ backupdir = NoDir
    /\ env = NoEnv
    /\ last = NoCall
    /\ prev = NoSummary
    /\ active = NoActive
    /\ keeper = NoKeeper
    /\ pre = Snapshot

NextLifecycle ==
    \/ PgCtlInitdb
    \/ PgCtlStart
    \/ PgCtlStop
    \/ PgCtlRestart
    \/ PgCtlPromote
    \/ PgIsRunning

SpecLifecycle == InitLifecycle /\ [][NextLifecycle]_vars

(***************************************************************************)
(* Settings (GUC) and the server handle (PostgresSetup), pgctl.h.          *)
(***************************************************************************)
GUC(name, value) == [name |-> name, value |-> value]
PostgresSetup(listen_addresses, pgport) ==
    [listen_addresses |-> listen_addresses, pgport |-> pgport]

\* decimal digits of a natural number, as printf's %d writes them
RECURSIVE Digits(_)
Digits(n) ==
    IF n < 0
    THEN LET last_digit == (10 - (n % 10)) % 10
             rest == -(n \div 10) - (IF (n % 10) = 0 THEN 0 ELSE 1)
         IN  <<"-">> \o (IF rest = 0 THEN <<>> ELSE Digits(rest))
             \o <<ToString(last_digit)>>
    ELSE IF n < 10 THEN <<ToString(n)>>
    ELSE Digits(n \div 10) \o <<ToString(n % 10)>>

(***************************************************************************)
(* regexp_first_match (parsing.c, outside pgctl.c), for the two patterns   *)
(* pgctl.c uses: "^include '<file>'.*" matches a line that starts with the *)
(* include directive of that file.  The lines that match, in order.        *)
(***************************************************************************)
RegexDirective(regex) ==
    IF regex = AUTOCTL_CONF_INCLUDE_REGEX
    THEN AUTOCTL_CONF_INCLUDE_LINE
    ELSE AUTOCTL_SB_CONF_INCLUDE_LINE

LineMatches(line, regex) == Len(line) > 0 /\ line[1] = RegexDirective(regex)

regexp_first_match(lines, regex) ==
    LET hits == SelectSeq(lines, LAMBDA l : LineMatches(l, regex))
    IN  IF hits = <<>> THEN NULL ELSE hits[1]

(***************************************************************************)
(* pg_include_config, pgctl.c:253-318                                      *)
(*   io.read, io.write: read_file and write_file succeed                   *)
(*   io.mem: the PQExpBuffer could be allocated                            *)
(***************************************************************************)
\* pgctl.c:271-280: the include line is already there
AlreadyIncluded_Never(lines, regex) == FALSE

AlreadyIncluded(lines, regex) == regexp_first_match(lines, regex) # NULL

\* pgctl.c:293-295: the new content of the file
NewConfContents_Appended(includeLine, comment, lines) ==
    lines \o <<<<includeLine, comment>>>>

NewConfContents(includeLine, comment, lines) ==
    <<<<includeLine, comment>>>> \o lines

pg_include_config(fs, configFilePath, includeLine, regex, comment, io) ==
    LET f == fs[configFilePath]
        rd == <<Ev("read_file", <<configFilePath>>)>>
        wr == <<Ev("write_file", <<configFilePath>>)>>
    IN  IF ~read_file(f, io.read)
        THEN [ret |-> FALSE, trace |-> rd, files |-> fs]
        ELSE IF AlreadyIncluded(f.lines, regex)
        THEN [ret |-> TRUE, trace |-> rd, files |-> fs]
        ELSE IF ~io.mem
        THEN [ret |-> FALSE,
              trace |-> rd \o <<Ev("log_error", <<"Failed to allocate memory">>)>>,
              files |-> fs]
        ELSE [ret |-> io.write,
              trace |-> rd \o wr,
              files |-> [fs EXCEPT ![configFilePath] =
                            write_file(@, NewConfContents(includeLine, comment, f.lines),
                                       io.write)]]

(***************************************************************************)
(* ensure_default_settings_file_exists, pgctl.c:325-432                    *)
(***************************************************************************)
\* pgctl.c:356-373: the line of one setting
SettingLine(setting, pgSetup) ==
    IF setting.name = "listen_addresses"
    THEN <<setting.name, " = ", "'">> \o pgSetup.listen_addresses \o <<"'">>
    ELSE IF setting.name = "port"
    THEN <<setting.name, " = ">> \o Digits(pgSetup.pgport)
    ELSE <<setting.name, " = ">> \o setting.value

\* pgctl.c:368-379: a setting that stops the rendering
IsBugSetting_Never(setting) == FALSE

IsBugSetting(setting) ==
    /\ setting.name # "listen_addresses"
    /\ setting.name # "port"
    /\ setting.value = NULL

\* pgctl.c:333-380: the content of the file
DefaultConfContents(settings, pgSetup) ==
    <<<<"# Settings by pg_auto_failover">>>>
    \o [i \in 1..Len(settings) |-> SettingLine(settings[i], pgSetup)]

\* pgctl.c:404-411: the file is there with the same content
SameContents_Never(current, wanted) == FALSE

SameContents(current, wanted) == current = wanted

ensure_default_settings_file_exists(fs, configFilePath, settings, pgSetup, io) ==
    LET f == fs[configFilePath]
        wanted == DefaultConfContents(settings, pgSetup)
        ex == <<Ev("file_exists", <<configFilePath>>)>>
        rd == <<Ev("read_file", <<configFilePath>>)>>
        wr == <<Ev("write_file", <<configFilePath>>)>>
        write(before) ==
            [ret |-> io.write,
             trace |-> before \o wr,
             files |-> [fs EXCEPT ![configFilePath] = write_file(@, wanted, io.write)]]
    IN  IF \E i \in 1..Len(settings) : IsBugSetting(settings[i])
        THEN [ret |-> FALSE,
              trace |-> <<Ev("log_error", <<"BUG: GUC setting has a NULL value">>)>>,
              files |-> fs]
        ELSE IF ~io.mem
        THEN [ret |-> FALSE,
              trace |-> <<Ev("log_error", <<"Failed to allocate memory">>)>>,
              files |-> fs]
        ELSE IF file_exists(f)
        THEN IF ~read_file(f, io.read)
             THEN [ret |-> FALSE, trace |-> ex \o rd, files |-> fs]
             ELSE IF SameContents(f.lines, wanted)
             THEN [ret |-> TRUE, trace |-> ex \o rd, files |-> fs]
             ELSE write(ex \o rd \o <<Ev("log_warn", <<"Contents have changed, overwriting">>)>>)
        ELSE write(ex)

(***************************************************************************)
(* pg_add_auto_failover_default_settings, pgctl.c:219-246                  *)
(***************************************************************************)
\* the include made whatever became of the settings file
pg_add_auto_failover_default_settings_IncludeAnyway(fs, pgSetup, configFilePath, settings, io1, io2) ==
    LET e == ensure_default_settings_file_exists(
                 fs, AUTOCTL_DEFAULTS_CONF_FILENAME, settings, pgSetup, io1)
        i == pg_include_config(e.files, configFilePath,
                               AUTOCTL_CONF_INCLUDE_LINE,
                               AUTOCTL_CONF_INCLUDE_REGEX,
                               AUTOCTL_CONF_INCLUDE_COMMENT, io2)
    IN  [ret |-> e.ret /\ i.ret, trace |-> e.trace \o i.trace, files |-> i.files,
         split |-> Len(e.trace)]

pg_add_auto_failover_default_settings(fs, pgSetup, configFilePath, settings, io1, io2) ==
    LET e == ensure_default_settings_file_exists(
                 fs, AUTOCTL_DEFAULTS_CONF_FILENAME, settings, pgSetup, io1)
        i == pg_include_config(e.files, configFilePath,
                               AUTOCTL_CONF_INCLUDE_LINE,
                               AUTOCTL_CONF_INCLUDE_REGEX,
                               AUTOCTL_CONF_INCLUDE_COMMENT, io2)
    IN  IF ~e.ret
        THEN [ret |-> FALSE, trace |-> e.trace, files |-> e.files,
              split |-> Len(e.trace)]
        ELSE [ret |-> i.ret, trace |-> e.trace \o i.trace, files |-> i.files,
              split |-> Len(e.trace)]

(***************************************************************************)
(* The configuration calls as actions.                                     *)
(***************************************************************************)
\* the results of the file primitives and of the buffer allocation in a call
IO == [read : BOOLEAN, write : BOOLEAN, mem : BOOLEAN]

\* a primitive can only have failed in a call that used it
Consulted(io, trace) ==
    /\ ~io.read => \E i \in 1..Len(trace) : trace[i].ev = "read_file"
    /\ ~io.write => \E i \in 1..Len(trace) : trace[i].ev = "write_file"
    /\ ~io.mem => Ev("log_error", <<"Failed to allocate memory">>) \in
                     {trace[i] : i \in 1..Len(trace)}

\* the settings lists callers pass: the defaults, and two lists with a
\* setting that has no value
SettingsLists ==
    { <<GUC("listen_addresses", <<"'*'">>), GUC("port", NULL),
        GUC("wal_level", <<"replica">>)>>,
      <<GUC("hot_standby", NULL), GUC("wal_level", <<"replica">>)>>,
      <<GUC("port", NULL), GUC("hot_standby", NULL)>> }

Handles == {PostgresSetup(<<"*">>, 5432), PostgresSetup(<<"localhost">>, 5433)}

\* the two include directives pgctl.c installs
Includes ==
    { [line |-> AUTOCTL_CONF_INCLUDE_LINE, regex |-> AUTOCTL_CONF_INCLUDE_REGEX,
       comment |-> AUTOCTL_CONF_INCLUDE_COMMENT],
      [line |-> AUTOCTL_SB_CONF_INCLUDE_LINE, regex |-> AUTOCTL_SB_CONF_INCLUDE_REGEX,
       comment |-> AUTOCTL_CONF_INCLUDE_COMMENT] }

EnsureDefaultSettingsFileExists ==
    /\ \E settings \in SettingsLists, pgSetup \in Handles, io \in IO :
         \E r \in {ensure_default_settings_file_exists(
                      files, AUTOCTL_DEFAULTS_CONF_FILENAME, settings, pgSetup, io)} :
             /\ Consulted(io, r.trace)
             /\ files' = r.files
             /\ Record(Call("ensure_default_settings_file_exists",
                            [configFilePath |-> AUTOCTL_DEFAULTS_CONF_FILENAME,
                             settings |-> settings, pgSetup |-> pgSetup],
                            [io |-> io], r.ret, r.trace))
    /\ UNCHANGED <<pgdata, backupdir, env, keeper, active>>

PgIncludeConfig ==
    /\ \E inc \in Includes, io \in IO :
         \E r \in {pg_include_config(files, POSTGRESQL_CONF,
                                     inc.line, inc.regex, inc.comment, io)} :
             /\ Consulted(io, r.trace)
             /\ files' = r.files
             /\ Record(Call("pg_include_config",
                            [configFilePath |-> POSTGRESQL_CONF, include |-> inc],
                            [io |-> io], r.ret, r.trace))
    /\ UNCHANGED <<pgdata, backupdir, env, keeper, active>>

PgAddAutoFailoverDefaultSettings ==
    /\ \E settings \in SettingsLists, pgSetup \in Handles, io1 \in IO, io2 \in IO :
         \E r \in {pg_add_auto_failover_default_settings(
                      files, pgSetup, POSTGRESQL_CONF, settings, io1, io2)} :
             /\ Consulted(io1, SubSeq(r.trace, 1, r.split))
             /\ Consulted(io2, SubSeq(r.trace, r.split + 1, Len(r.trace)))
             /\ files' = r.files
             /\ Record(Call("pg_add_auto_failover_default_settings",
                            [configFilePath |-> POSTGRESQL_CONF,
                             settings |-> settings, pgSetup |-> pgSetup],
                            [io1 |-> io1, io2 |-> io2], r.ret, r.trace))
    /\ UNCHANGED <<pgdata, backupdir, env, keeper, active>>

\* lines a postgresql.conf may hold before pg_autoctl first edits it
ConfLines ==
    { <<"port = 5432">>,
      <<"# ", AUTOCTL_CONF_INCLUDE_LINE>>,
      <<AUTOCTL_CONF_INCLUDE_LINE, " # by hand">> }

IncludeCount(lines, regex) ==
    Len(SelectSeq(lines, LAMBDA l : LineMatches(l, regex)))

\* the postgresql.conf files a behaviour may start from: no file, or up to
\* MaxConf lines that include the settings file at most once
InitConfFiles ==
    {Absent} \cup
    { FileOf(c) : c \in { c \in UNION {[1..n -> ConfLines] : n \in 0..MaxConf} :
                            IncludeCount(c, AUTOCTL_CONF_INCLUDE_REGEX) <= 1 } }

InitSettings ==
    /\ \E conf \in InitConfFiles,
          defaults \in {Absent, FileOf(<<<<"# edited by hand">>>>)} :
         files = [InitFiles EXCEPT ![POSTGRESQL_CONF] = conf,
                                   ![AUTOCTL_DEFAULTS_CONF_FILENAME] = defaults]
    /\ pgdata = NoDir
    /\ backupdir = NoDir
    /\ env = NoEnv
    /\ last = NoCall
    /\ prev = NoSummary
    /\ active = NoActive
    /\ keeper = NoKeeper
    /\ pre = Snapshot

NextSettings ==
    \/ EnsureDefaultSettingsFileExists
    \/ PgIncludeConfig
    \/ PgAddAutoFailoverDefaultSettings

SpecSettings == InitSettings /\ [][NextSettings]_vars

(***************************************************************************)
(* escape_recovery_conf_string, pgctl.c:1027-1077                          *)
(*                                                                         *)
(* Strings are sequences of characters.  The function writes destination   *)
(* from index 0 on, one character after the other: Written is the sequence *)
(* of the characters it wrote, the terminating NUL included, so that the   *)
(* character at index i of destination is Written[i + 1].  A write at an   *)
(* index >= destinationSize is outside the buffer.                         *)
(***************************************************************************)
Quote == "'"
NUL == "\\0"

\* pgctl.c:1036: room for the two quotes and the NUL
EscapeFits_NoTerminator(destinationSize, length) == destinationSize >= length + 2

EscapeFits(destinationSize, length) == ~(destinationSize < length + 3)

\* pgctl.c:1050-1063: what one character of the input adds
EscapedChar_NotDoubled(currentChar) == <<currentChar>>

EscapedChar(currentChar) ==
    IF currentChar = Quote THEN <<Quote, currentChar>> ELSE <<currentChar>>

\* pgctl.c:1046-1071: the loop from charIndex on, w being what is written so
\* far; the size is checked after every write
RECURSIVE EscapeLoop(_, _, _, _)
EscapeLoop(destinationSize, str, charIndex, w) ==
    IF charIndex > Len(str)
    THEN [ret |-> TRUE, written |-> w]
    ELSE LET e == EscapedChar(str[charIndex])
             w1 == w \o <<e[1]>>
             w2 == w \o e
         IN  IF destinationSize < Len(w1)
             THEN [ret |-> FALSE, written |-> w1]
             ELSE IF destinationSize < Len(w2)
             THEN [ret |-> FALSE, written |-> w2]
             ELSE EscapeLoop(destinationSize, str, charIndex + 1, w2)

\* the writes of escape_recovery_conf_string and its return value
EscapeWrites(destinationSize, str) ==
    IF ~EscapeFits(destinationSize, Len(str))
    THEN [ret |-> FALSE, written |-> <<>>]
    ELSE LET l == EscapeLoop(destinationSize, str, 1, <<Quote>>)
         IN  IF l.ret
             THEN [ret |-> TRUE, written |-> l.written \o <<Quote, NUL>>]
             ELSE l

\* the characters before the first NUL
RECURSIVE CString(_)
CString(w) ==
    IF w = <<>> \/ w[1] = NUL THEN <<>> ELSE <<w[1]>> \o CString(Tail(w))

\* pgctl.c:1038-1041, 1056-1060, 1066-1069: a refusal is logged
EscapeLog(ret) ==
    IF ret THEN <<>>
    ELSE <<Ev("log_error", <<"BUG: failed to escape recovery parameter value">>)>>

\* escape_recovery_conf_string: whether the call returns, its return value,
\* what it logs, the string its caller finds in destination, and whether it
\* wrote outside destination.  A write outside destination is undefined
\* behaviour: the process is stopped at that write, before anything is
\* logged, or the call goes on and returns.  The string of a call that
\* returns true is what the call wrote, up to the terminator it wrote.  A
\* call that returns false after writing has written no terminator
\* (pgctl.c:1053-1060, 1064-1070 return before pgctl.c:1074): what follows
\* the characters it wrote is what the memory held before, nothing or some
\* other bytes.
escape_recovery_conf_string(destinationSize, str) ==
    LET e == EscapeWrites(destinationSize, str)
        overflow == Len(e.written) > destinationSize
        terminated == e.written # <<>> /\ e.written[Len(e.written)] = NUL
        found == IF terminated \/ e.written = <<>>
                 THEN {CString(e.written)}
                 ELSE {e.written \o before : before \in {<<>>, <<"?">>}}
    IN  {[completed |-> TRUE, ret |-> e.ret, destination |-> destination,
          overflow |-> overflow, trace |-> EscapeLog(e.ret)] :
            destination \in found}
        \cup (IF overflow
              THEN {[completed |-> FALSE, ret |-> FALSE, destination |-> <<>>,
                     overflow |-> TRUE, trace |-> <<>>]}
              ELSE {})

\* the strings of up to n characters
Strings(alphabet, n) == UNION {[1..k -> alphabet] : k \in 0..n}

(***************************************************************************)
(* escape_recovery_conf_string on its own: the input is drawn first.       *)
(***************************************************************************)
EscapeInput(destinationSize, str) ==
    CallOut("input of escape_recovery_conf_string",
            [destinationSize |-> destinationSize, recoveryConfString |-> str],
            <<>>, FALSE, <<>>, <<>>)

InitEscape ==
    /\ files = InitFiles
    /\ pgdata = NoDir
    /\ backupdir = NoDir
    /\ env = NoEnv
    /\ \E str \in Strings({"a", Quote}, MaxStr), destinationSize \in 0..MaxDest :
         last = EscapeInput(destinationSize, str)
    /\ prev = NoSummary
    /\ active = NoActive
    /\ keeper = NoKeeper
    /\ pre = Snapshot

EscapeRecoveryConfString ==
    /\ last.op = "input of escape_recovery_conf_string"
    /\ \E r \in escape_recovery_conf_string(last.in.destinationSize,
                                            last.in.recoveryConfString) :
         Record(CallOut("escape_recovery_conf_string", last.in,
                        [overflow |-> r.overflow, completed |-> r.completed],
                        r.ret, r.trace, r.destination))
    /\ UNCHANGED <<files, pgdata, backupdir, env, keeper, active>>

NextEscape == EscapeRecoveryConfString

SpecEscape == InitEscape /\ [][NextEscape]_vars

(***************************************************************************)
(* prepare_primary_conninfo, pgctl.c:1083-1133                             *)
(***************************************************************************)
\* pgctl.c:1095-1102: the connection string before escaping
ConnInfoBuffer(primaryHost, primaryPort, replicationUsername, replicationPassword) ==
    <<"h", "o", "s", "t", "=">> \o primaryHost
    \o <<" ", "p", "o", "r", "t", "=">> \o Digits(primaryPort)
    \o <<" ", "u", "s", "e", "r", "=">> \o replicationUsername
    \o (IF replicationPassword # NULL
        THEN <<" ", "p", "a", "s", "s", "w", "o", "r", "d", "=">> \o replicationPassword
        ELSE <<>>)

\* snprintf(dst, size, "%s", str): what dst holds afterwards
Snprintf(size, str) ==
    SubSeq(str, 1, IF Len(str) < size THEN Len(str) ELSE size - 1)

\* pgctl.c:1120-1128: the copy is refused when it needs too many bytes
ConnInfoRefused(size, primaryConnInfoSize) == size > primaryConnInfoSize

\* the outcomes of prepare_primary_conninfo: whether it returned, its return
\* value, what it leaves in primaryConnInfo and what it logged.  mem is the
\* result of the allocations of the PQExpBuffer.  After a write behind
\* escaped[BUFSIZE] the call may also not return: the process is stopped at
\* that write, inside escape_recovery_conf_string, or later and at the
\* latest when the function ends, after what it logged.
prepare_primary_conninfo(primaryConnInfoSize, primaryHost, primaryPort, replicationUsername, replicationPassword, mem) ==
    LET buffer == ConnInfoBuffer(primaryHost, primaryPort,
                                 replicationUsername, replicationPassword)
        refused(e) == ConnInfoRefused(Len(e.destination), primaryConnInfoSize)
        Returns(e) ==
            IF ~e.ret
            THEN [completed |-> TRUE, ret |-> FALSE, primaryConnInfo |-> <<>>,
                  overflow |-> e.overflow, trace |-> e.trace]
            ELSE [completed |-> TRUE, ret |-> ~refused(e),
                  primaryConnInfo |-> Snprintf(primaryConnInfoSize, e.destination),
                  overflow |-> e.overflow,
                  trace |-> IF refused(e)
                            THEN <<Ev("log_error",
                                      <<"BUG: the escaped primary_conninfo requires too many bytes">>)>>
                            ELSE <<>>]
        Stopped(trace) ==
            [completed |-> FALSE, ret |-> FALSE, primaryConnInfo |-> <<>>,
             overflow |-> TRUE, trace |-> trace]
    IN  IF ~mem
        THEN {[completed |-> TRUE, ret |-> FALSE, primaryConnInfo |-> <<>>,
               overflow |-> FALSE,
               trace |-> <<Ev("log_error", <<"Failed to allocate memory">>)>>]}
        ELSE UNION {
                IF ~e.completed
                THEN {Stopped(e.trace)}
                ELSE {Returns(e)}
                     \cup (IF e.overflow THEN {Stopped(Returns(e).trace)} ELSE {}) :
                e \in escape_recovery_conf_string(BUFSIZE, buffer) }

(***************************************************************************)
(* The failure of one external call: a call of pgctl.c returns at the      *)
(* first primitive that fails, so at most one fails in a call.  A fault    *)
(* names the step of the call and the primitive that fails in it.          *)
(***************************************************************************)
NoFault == <<"none", "none">>
Faults(steps) == {NoFault} \cup (steps \X {"read", "write", "mem"})

IOFor(fault, step) ==
    [read |-> fault # <<step, "read">>,
     write |-> fault # <<step, "write">>,
     mem |-> fault # <<step, "mem">>]

(***************************************************************************)
(* pg_write_recovery_conf, pgctl.c:979-1018                                *)
(***************************************************************************)
RecoveryConfContents(primaryConnInfo, replicationSlotName) ==
    << <<"standby_mode = 'on'">>,
       <<"primary_conninfo = ">> \o primaryConnInfo,
       <<"primary_slot_name = '">> \o replicationSlotName \o <<"'">>,
       <<"recovery_target_timeline = 'latest'">> >>

pg_write_recovery_conf(dir, primaryConnInfo, replicationSlotName, io) ==
    LET ok == write_in_dir(dir, io.write)
    IN  IF ~io.mem
        THEN [ret |-> FALSE,
              trace |-> <<Ev("log_error", <<"Failed to allocate memory">>)>>,
              pgdata |-> dir]
        ELSE [ret |-> ok,
              trace |-> <<Ev("write_file", <<"recovery.conf">>)>>,
              pgdata |-> [dir EXCEPT !.recovery_conf =
                             write_file(@, RecoveryConfContents(primaryConnInfo,
                                                                replicationSlotName), ok)]]

(***************************************************************************)
(* pg_write_standby_signal, pgctl.c:1142-1206                              *)
(***************************************************************************)
\* pgctl.c:1148-1153
StandbySettings(primaryConnInfo, replicationSlotName) ==
    << GUC("primary_conninfo", primaryConnInfo),
       GUC("primary_slot_name", replicationSlotName),
       GUC("recovery_target_timeline", <<"latest">>) >>

\* pgctl.c:1195: the file pg_include_config is called on
StandbyIncludeTarget(configFilePath) == AUTOCTL_STANDBY_CONF_FILENAME

\* pgctl.c:1164-1172: standby.signal is written, empty
WriteStandbySignal(dir, ok) ==
    [dir EXCEPT !.standby_signal = write_file(@, <<>>, ok)]

\* the steps in another order: the settings file and the include first, the
\* signal file last
pg_write_standby_signal_SignalLast(fs, dir, configFilePath, primaryConnInfo, replicationSlotName, fault) ==
    LET ok == write_in_dir(dir, IOFor(fault, "signal").write)
        sig == <<Ev("write_file", <<"standby.signal">>)>>
        e == ensure_default_settings_file_exists(
                 fs, AUTOCTL_STANDBY_CONF_FILENAME,
                 StandbySettings(primaryConnInfo, replicationSlotName),
                 NULL, IOFor(fault, "settings"))
        i == pg_include_config(e.files, StandbyIncludeTarget(configFilePath),
                               AUTOCTL_SB_CONF_INCLUDE_LINE,
                               AUTOCTL_SB_CONF_INCLUDE_REGEX,
                               AUTOCTL_CONF_INCLUDE_COMMENT, IOFor(fault, "include"))
    IN  IF ~e.ret
        THEN [ret |-> FALSE, trace |-> e.trace, files |-> e.files, pgdata |-> dir]
        ELSE IF ~i.ret
        THEN [ret |-> FALSE, trace |-> e.trace \o i.trace, files |-> i.files,
              pgdata |-> dir]
        ELSE [ret |-> ok, trace |-> e.trace \o i.trace \o sig, files |-> i.files,
              pgdata |-> WriteStandbySignal(dir, ok)]

pg_write_standby_signal(fs, dir, configFilePath, primaryConnInfo, replicationSlotName, fault) ==
    LET ok == write_in_dir(dir, IOFor(fault, "signal").write)
        sig == <<Ev("write_file", <<"standby.signal">>)>>
        signalled == WriteStandbySignal(dir, ok)
        e == ensure_default_settings_file_exists(
                 fs, AUTOCTL_STANDBY_CONF_FILENAME,
                 StandbySettings(primaryConnInfo, replicationSlotName),
                 NULL, IOFor(fault, "settings"))
        i == pg_include_config(e.files, StandbyIncludeTarget(configFilePath),
                               AUTOCTL_SB_CONF_INCLUDE_LINE,
                               AUTOCTL_SB_CONF_INCLUDE_REGEX,
                               AUTOCTL_CONF_INCLUDE_COMMENT, IOFor(fault, "include"))
    IN  IF ~ok
        THEN [ret |-> FALSE, trace |-> sig, files |-> fs, pgdata |-> dir]
        ELSE IF ~e.ret
        THEN [ret |-> FALSE, trace |-> sig \o e.trace, files |-> e.files,
              pgdata |-> signalled]
        ELSE [ret |-> i.ret,
              trace |-> sig \o e.trace \o i.trace
                        \o (IF i.ret THEN <<>>
                            ELSE <<Ev("log_error",
                                      <<"Failed to prepare standby settings">>)>>),
              files |-> i.files,
              pgdata |-> signalled]

(***************************************************************************)
(* pg_setup_standby_mode, pgctl.c:927-972                                  *)
(***************************************************************************)
ReplicationSource(host, port, userName, password, slotName) ==
    [primaryNode |-> [host |-> host, port |-> port],
     userName |-> userName, password |-> password, slotName |-> slotName]

\* pgctl.c:948: the version that selects recovery.conf
UsesRecoveryConf_Inclusive(pg_control_version) ==
    pg_control_version <= PG12_CONTROL_VERSION

UsesRecoveryConf(pg_control_version) == pg_control_version < PG12_CONTROL_VERSION

\* the outcomes of pg_setup_standby_mode
pg_setup_standby_mode(pg_control_version, fs, dir, configFilePath, replicationSource, fault) ==
    { IF ~c.ret
      THEN [ret |-> FALSE, trace |-> c.trace, files |-> fs, pgdata |-> dir,
            conninfo |-> c]
      ELSE IF UsesRecoveryConf(pg_control_version)
      THEN LET r == pg_write_recovery_conf(dir, c.primaryConnInfo,
                                           replicationSource.slotName,
                                           IOFor(fault, "recovery"))
           IN  [ret |-> r.ret, trace |-> c.trace \o r.trace, files |-> fs,
                pgdata |-> r.pgdata, conninfo |-> c]
      ELSE LET r == pg_write_standby_signal(fs, dir, configFilePath,
                                            c.primaryConnInfo,
                                            replicationSource.slotName, fault)
           IN  [ret |-> r.ret, trace |-> c.trace \o r.trace, files |-> r.files,
                pgdata |-> r.pgdata, conninfo |-> c] :
      c \in prepare_primary_conninfo(MAXCONNINFO,
                                     replicationSource.primaryNode.host,
                                     replicationSource.primaryNode.port,
                                     replicationSource.userName,
                                     replicationSource.password,
                                     IOFor(fault, "conninfo").mem) }

(***************************************************************************)
(* Standby setup as an action.                                             *)
(***************************************************************************)
ControlVersions == {1100, PG12_CONTROL_VERSION - 1, PG12_CONTROL_VERSION, 1300}

ReplicationSources ==
    { ReplicationSource(<<"h">>, 5, userName, password, <<"s">>) :
        userName \in {<<"u">>, <<Quote>>, <<Quote, Quote>>},
        password \in {NULL, <<>>, <<"p">>} }

\* the control version and the replication source a node is set up with
Keepers ==
    [pg_control_version : ControlVersions, replicationSource : ReplicationSources]

StandbyFaults == Faults({"conninfo", "recovery", "signal", "settings", "include"})

\* a fault is the failure of a primitive the call made: the call does not
\* end as it does without the fault
FaultHit(fault, outcome, faultless) == fault # NoFault => outcome \notin faultless

PgSetupStandbyMode ==
    /\ \E fault \in StandbyFaults :
         \E r \in pg_setup_standby_mode(keeper.pg_control_version, files, pgdata,
                                        POSTGRESQL_CONF, keeper.replicationSource,
                                        fault) :
             /\ FaultHit(fault, r,
                         pg_setup_standby_mode(keeper.pg_control_version, files,
                                               pgdata, POSTGRESQL_CONF,
                                               keeper.replicationSource, NoFault))
             /\ files' = r.files
             /\ pgdata' = r.pgdata
             /\ Record(CallOut("pg_setup_standby_mode",
                               [pg_control_version |-> keeper.pg_control_version,
                                configFilePath |-> POSTGRESQL_CONF,
                                replicationSource |-> keeper.replicationSource],
                               [fault |-> fault], r.ret, r.trace, r.conninfo))
    /\ UNCHANGED <<backupdir, env, keeper, active>>

InitStandby ==
    /\ \E conf \in {Absent, FileOf(<<<<"port = 5432">>>>)} :
         files = [InitFiles EXCEPT ![POSTGRESQL_CONF] = conf]
    /\ pgdata \in {NoDir, [EmptyDir EXCEPT !.base = "initdb"]}
    /\ backupdir = NoDir
    /\ env = NoEnv
    /\ last = NoCall
    /\ prev = NoSummary
    /\ active = NoActive
    /\ keeper \in Keepers
    /\ pre = Snapshot

NextStandby == PgSetupStandbyMode

SpecStandby == InitStandby /\ [][NextStandby]_vars

(***************************************************************************)
(* pg_basebackup, pgctl.c:439-520                                          *)
(***************************************************************************)
\* what the pg_basebackup tool stages with --write-recovery-conf, by the
\* state of the primary it copies
Staged(primary) ==
    [EmptyDir EXCEPT !.base = primary,
                     !.recovery_conf = FileOf(<<<<"written by pg_basebackup">>>>)]

\* what a tool that fails may leave in the directory it was filling
PartialBackup == [EmptyDir EXCEPT !.base = "partial base backup"]

\* what a rmtree that fails may have removed already
PartlyRemoved(dir) ==
    [dir EXCEPT !.startup_log = Absent, !.standby_signal = Absent,
                !.recovery_conf = Absent]

\* pgctl.c:492: the tool failed
ToolFailed_Never(returnCode) == FALSE

ToolFailed(returnCode) == returnCode # 0

\* pgctl.c:511: the rename failed
RenameFailed_Ignored(rc) == FALSE

RenameFailed(rc) == rc # 0

\* the place of a call that was not made
NotCalled == 1

\* ensure_empty_dir (file_utils.c, outside pgctl.c), when it succeeds: the
\* directory exists and nothing is in it
EnsureEmptyDir(backup) == EmptyDir

\* pgctl.c:455: the backup directory could not be made empty
EnsureFailed_Ignored(ensured) == FALSE

EnsureFailed(ensured) == ~ensured

\* the tool writes its copy into the directory it is given: what else is in
\* the directory stays there
FilledBy(dir, staged) ==
    [staged EXCEPT !.startup_log = dir.startup_log,
                   !.standby_signal = dir.standby_signal]

\* pgctl.c:465, 548: a password is supplied
PasswordSupplied(replication_password) == replication_password # NULL

\* pgctl.c:451: char primary_port_str[10]
sizeof_primary_port_str == 10

\* pgctl.c:464-468, 546-551: the environment after the setenv calls
SetEnv(environ, replication_password) ==
    [environ EXCEPT !.PGCONNECT_TIMEOUT = <<"POSTGRES_CONNECT_TIMEOUT">>,
                    !.PGPASSWORD = IF PasswordSupplied(replication_password)
                                   THEN replication_password ELSE @]

\* the setenv calls, as events
SetEnvTrace(replication_password) ==
    <<Ev("setenv", <<"PGCONNECT_TIMEOUT">>)>>
    \o (IF PasswordSupplied(replication_password)
        THEN <<Ev("setenv", <<"PGPASSWORD">>)>> ELSE <<>>)

\* pgctl.c:451, 463, 474-486: the argument vector of the pg_basebackup tool;
\* the port is the text snprintf leaves in primary_port_str, a buffer of
\* sizeof(primary_port_str) bytes
BasebackupArgv(source) ==
    <<"pg_basebackup", "-w", "-h">> \o source.primaryNode.host
    \o <<"-p">> \o Snprintf(sizeof_primary_port_str, Digits(source.primaryNode.port))
    \o <<"--pgdata", "backupdir", "-U">> \o source.userName
    \o <<"--verbose", "--progress", "--write-recovery-conf",
         "--max-rate", "maximum_backup_rate", "--wal-method=stream", "--slot">>
    \o source.slotName

\* ext: what the collaborators answer, ext.ensure_empty_dir, ext.program with
\* the directory ext.staged the tool leaves, ext.rmtree with the directory
\* ext.removed it leaves, ext.rename
pg_basebackup(dir, backup, environ, source, ext) ==
    LET ensure == <<Ev("ensure_empty_dir", <<"backupdir">>)>>
        environ2 == SetEnv(environ, source.password)
        staged == FilledBy(EnsureEmptyDir(backup), ext.staged)
        run == ensure
               \o SetEnvTrace(source.password)
               \o <<Ev("run_program", BasebackupArgv(source))>>
               \o log_program_output(ext.program)
        probe == run \o <<Ev("directory_exists", <<"pgdata">>)>>
        remove == probe \o (IF directory_exists(dir)
                            THEN <<Ev("rmtree", <<"pgdata">>)>> ELSE <<>>)
        removed == IF directory_exists(dir) THEN ext.removed ELSE dir
    IN  IF EnsureFailed(ext.ensure_empty_dir)
        THEN [ret |-> FALSE, trace |-> ensure, pgdata |-> dir,
              backupdir |-> backup, env |-> environ]
        ELSE IF ToolFailed(ext.program.returnCode)
        THEN [ret |-> FALSE,
              trace |-> run \o <<Ev("log_error", <<"Failed to run pg_basebackup">>)>>,
              pgdata |-> dir, backupdir |-> staged, env |-> environ2]
        ELSE IF directory_exists(dir) /\ ext.rmtree # 0
        THEN [ret |-> FALSE,
              trace |-> remove \o <<Ev("log_error", <<"Failed to remove directory">>)>>,
              pgdata |-> removed, backupdir |-> staged, env |-> environ2]
        ELSE IF RenameFailed(ext.rename)
        THEN [ret |-> FALSE,
              trace |-> remove \o <<Ev("rename", <<"backupdir", "pgdata">>),
                                    Ev("log_error", <<"Failed to install pg_basebackup dir">>)>>,
              pgdata |-> removed, backupdir |-> staged, env |-> environ2]
        ELSE [ret |-> TRUE,
              trace |-> remove \o <<Ev("rename", <<"backupdir", "pgdata">>)>>,
              pgdata |-> IF ext.rename = 0 THEN staged ELSE removed,
              backupdir |-> IF ext.rename = 0 THEN NoDir ELSE staged,
              env |-> environ2]

\* the states of the primary a backup may copy
Primaries == {"base backup 1", "base backup 2"}

\* the answers of the tool: it stages a whole backup exactly when it exits 0
BackupTools ==
    { [program |-> Program(0, out, NULL), staged |-> Staged(primary)] :
        out \in Outputs, primary \in Primaries }
    \cup { [program |-> Program(1, NULL, <<"out">>), staged |-> left] :
             left \in {EmptyDir, PartialBackup} }

\* the answers of rmtree on a directory: 0 and the directory is gone, or a
\* failure that leaves it whole or in part
Removals(dir) ==
    {[rmtree |-> 0, removed |-> NoDir]}
    \cup {[rmtree |-> -1, removed |-> left] : left \in {dir, PartlyRemoved(dir)}}

\* the answers of the collaborators, for the calls pg_basebackup makes
BackupExternals(dir) ==
    LET Ext(ok, tool, rm, rc) ==
            [ensure_empty_dir |-> ok, program |-> tool.program,
             staged |-> tool.staged, rmtree |-> rm.rmtree,
             removed |-> rm.removed, rename |-> rc]
        NoTool == [program |-> NotRun, staged |-> NoDir]
        NoRemoval == [rmtree |-> NotCalled, removed |-> dir]
    IN  {Ext(FALSE, NoTool, NoRemoval, NotCalled)}
        \cup { Ext(TRUE, tool, NoRemoval, NotCalled) :
                 tool \in {t \in BackupTools : ToolFailed(t.program.returnCode)} }
        \cup { Ext(TRUE, tool, rm, IF rm.rmtree = 0 THEN rc ELSE NotCalled) :
                 tool \in {t \in BackupTools : ~ToolFailed(t.program.returnCode)},
                 rm \in IF directory_exists(dir) THEN Removals(dir)
                        ELSE {[rmtree |-> 0, removed |-> dir]},
                 rc \in {0, -1} }

\* the passwords a call may be given: the replication source is an argument
\* of every call; the password has no character of the other arguments
Passwords == {NULL, <<"x">>}

\* the ports of the primary a call may be given: one digit, and ten
Ports == {5, 1000000000}

PgBasebackup ==
    /\ \E ext \in BackupExternals(pgdata), password \in Passwords, port \in Ports :
         \E r \in {pg_basebackup(pgdata, backupdir, env,
                                 [keeper.replicationSource EXCEPT
                                     !.password = password,
                                     !.primaryNode.port = port],
                                 ext)} :
             /\ pgdata' = r.pgdata
             /\ backupdir' = r.backupdir
             /\ env' = r.env
             /\ Record(Call("pg_basebackup",
                            [replication_password |-> password,
                             primary_port |-> port],
                            ext, r.ret, r.trace))
    /\ UNCHANGED <<files, keeper, active>>

(***************************************************************************)
(* pg_rewind, pgctl.c:528-574                                              *)
(***************************************************************************)
\* make_conninfo_field_str, make_conninfo_field_int (outside pgctl.c): one
\* field of a connection string, character by character
make_conninfo_field_str(key, value) == <<" ">> \o key \o <<"=">> \o value
make_conninfo_field_int(key, value) == <<" ">> \o key \o <<"=">> \o Digits(value)

\* pgctl.c:539-542: the characters the four calls write from the start of
\* primaryConnInfo on, the terminator left aside
RewindConnInfo(primaryHost, primaryPort, databaseName, replicationUsername) ==
    make_conninfo_field_str(<<"h", "o", "s", "t">>, primaryHost)
    \o make_conninfo_field_int(<<"p", "o", "r", "t">>, primaryPort)
    \o make_conninfo_field_str(<<"u", "s", "e", "r">>, replicationUsername)
    \o make_conninfo_field_str(<<"d", "b", "n", "a", "m", "e">>, databaseName)

\* pgctl.c:556-560: the argument vector of the pg_rewind tool
RewindArgv(primaryConnInfo) ==
    <<"pg_rewind", "--target-pgdata", "pgdata", "--source-server">>
    \o primaryConnInfo \o <<"--progress">>

\* ext.program: what the tool answers; ext.rewound: the data directory as
\* the tool leaves it.  primaryConnInfo is an array of MAXCONNINFO bytes
\* (pgctl.c:535) that the four fields are written into with no size
\* (pgctl.c:539-542): a connection string that does not fit with its
\* terminator is written past the end of the array, which is undefined
\* behaviour.  The call then goes on and returns, or the process is stopped
\* at the write or at any step after it: before any setenv, between the
\* setenv calls, before or after the tool is spawned and its output logged,
\* or when the function ends.  The tool is spawned with what the array and
\* the memory behind it hold by then: what was written there, or bytes the
\* function does not control; those bytes may be any, the ones of the
\* password among them.
pg_rewind(dir, environ, primaryHost, primaryPort, databaseName, replicationUsername, replicationPassword, ext) ==
    LET written == RewindConnInfo(primaryHost, primaryPort, databaseName,
                                  replicationUsername)
        overflow == Len(written) + 1 > MAXCONNINFO
        inside == SubSeq(written, 1, MAXCONNINFO)
        unknown == {<<"?">>} \cup (IF replicationPassword # NULL
                                   THEN {replicationPassword} ELSE {})
        primaryConnInfos ==
            IF overflow
            THEN {written} \cup {inside \o bytes : bytes \in unknown}
            ELSE {written}
        setenvs == SetEnvTrace(replicationPassword)
        Run(primaryConnInfo) ==
            setenvs
            \o <<Ev("run_program", RewindArgv(primaryConnInfo))>>
            \o log_program_output(ext.program)
            \o (IF ext.program.returnCode # 0
                THEN <<Ev("log_error", <<"Failed to run pg_rewind">>)>>
                ELSE <<>>)
        \* the call after the first steps of its run
        After(primaryConnInfo, steps, completed) ==
            [completed |-> completed,
             spawned |-> steps > Len(setenvs),
             overflow |-> overflow,
             ret |-> completed /\ ext.program.returnCode = 0,
             trace |-> SubSeq(Run(primaryConnInfo), 1, steps),
             pgdata |-> IF steps > Len(setenvs) THEN ext.rewound ELSE dir,
             env |-> IF steps = 0 THEN environ
                     ELSE IF steps < Len(setenvs) THEN SetEnv(environ, NULL)
                     ELSE SetEnv(environ, replicationPassword)]
    IN  { After(primaryConnInfo, Len(Run(primaryConnInfo)), TRUE) :
            primaryConnInfo \in primaryConnInfos }
        \cup (IF overflow
              THEN UNION { { After(primaryConnInfo, steps, FALSE) :
                               steps \in 0..Len(Run(primaryConnInfo)) } :
                           primaryConnInfo \in primaryConnInfos }
              ELSE {})

\* the answers of the pg_rewind tool: it rewinds a data directory that
\* exists, in place, and then prints on its standard output only
RewindTools(dir) ==
    { [program |-> p, rewound |-> [dir EXCEPT !.base = "rewound"]] :
        p \in {q \in PgCtlResults(dir, {0}, Outputs) : q.stderr = NULL} }
    \cup {[program |-> Program(1, NULL, <<"out">>), rewound |-> dir]}

PgRewind ==
    /\ \E ext \in RewindTools(pgdata), password \in Passwords, port \in Ports :
         \E r \in pg_rewind(pgdata, env,
                            keeper.replicationSource.primaryNode.host,
                            port,
                            <<"d">>,
                            keeper.replicationSource.userName,
                            password, ext) :
             /\ pgdata' = r.pgdata
             /\ env' = r.env
             /\ Record(CallOut("pg_rewind",
                               [replication_password |-> password,
                                primary_port |-> port],
                               IF r.spawned THEN ext
                               ELSE [program |-> NotRun, rewound |-> pgdata],
                               r.ret, r.trace,
                               [completed |-> r.completed, overflow |-> r.overflow]))
    /\ UNCHANGED <<files, backupdir, keeper, active>>

InitBackup ==
    /\ files = InitFiles
    /\ pgdata \in {NoDir, [EmptyDir EXCEPT !.base = "initdb"],
                   [EmptyDir EXCEPT !.base = "initdb",
                                    !.startup_log = FileOf(<<<<"out1">>>>)]}
    /\ backupdir \in {NoDir, PartialBackup,
                      [PartialBackup EXCEPT !.standby_signal = FileOf(<<>>)]}
    /\ env = NoEnv
    /\ keeper \in {k \in Keepers : /\ k.pg_control_version = PG12_CONTROL_VERSION
                                   /\ k.replicationSource.userName = <<"u">>
                                   /\ k.replicationSource.password = NULL}
    /\ last = NoCall
    /\ prev = NoSummary
    /\ active = NoActive
    /\ pre = Snapshot

NextBackup == PgBasebackup \/ PgRewind

SpecBackup == InitBackup /\ [][NextBackup]_vars

(***************************************************************************)
(* pg_controldata, pgctl.c:97-162                                          *)
(***************************************************************************)
\* the line of the pg_controldata output that carries the control version
ControlText(version) == <<"pg_control version number:">> \o Digits(version)

\* parse_controldata (parsing.c, outside pgctl.c): the control data read
\* from the output, when the output is the one of pg_controldata
parse_controldata(stdout) ==
    IF \E v \in ControlVersions : stdout = ControlText(v)
    THEN [ok |-> TRUE,
          pg_control_version |-> CHOOSE v \in ControlVersions : stdout = ControlText(v)]
    ELSE [ok |-> FALSE, pg_control_version |-> 0]

\* pgctl.c:103: the handle has no data directory or no pg_ctl
EmptySetup(pgSetup) == pgSetup.pgdata = <<>> \/ pgSetup.pg_ctl = <<>>

\* pgctl.c:117-124: the tool exited with 0 and printed nothing
EmptyOutput(prog) == prog.returnCode = 0 /\ prog.stdout = NULL

\* pgctl.c:160: the result on a tool that exits non-zero
MissingResult_Failure(missing_ok) == FALSE

MissingResult(missing_ok) == missing_ok

\* splitLines (outside pgctl.c): the lines of a text, none for no text; a
\* text is its chunks, and the chunk "\n" ends a line
RECURSIVE splitLines(_)
splitLines(text) ==
    IF text = NULL \/ text = <<>> THEN <<>>
    ELSE LET ends == {i \in 1..Len(text) : text[i] = "\n"}
             end == IF ends = {} THEN Len(text) + 1
                    ELSE CHOOSE i \in ends : \A j \in ends : i <= j
         IN  <<SubSeq(text, 1, end - 1)>>
             \o splitLines(SubSeq(text, end + 1, Len(text)))

\* pgctl.c:109-161: the body of pg_controldata from the run of the tool on,
\* up to its return or to the call of itself (recurse)
pg_controldata_run(control, missing_ok, prog) ==
    LET run == <<Ev("setenv", <<"LANG">>), Ev("run_program", <<"pg_controldata">>)>>
        parsed == parse_controldata(prog.stdout)
        lines == splitLines(prog.stderr)
        errorLines == SubSeq(lines, 1, IF Len(lines) < BUFSIZE THEN Len(lines) ELSE BUFSIZE)
    IN  IF EmptyOutput(prog)
        THEN [recurse |-> TRUE, ret |-> FALSE, control |-> control,
              trace |-> run \o <<Ev("log_warn", <<"Got empty output, trying again in 1s">>),
                                 Ev("sleep", <<"1">>)>>]
        ELSE IF prog.returnCode = 0
        THEN IF ~parsed.ok
             THEN [recurse |-> FALSE, ret |-> FALSE, control |-> control,
                   trace |-> run \o <<Ev("log_error", <<"pg_controldata">>),
                                      Ev("log_warn", prog.stdout)>>]
             ELSE [recurse |-> FALSE, ret |-> TRUE,
                   control |-> parsed.pg_control_version, trace |-> run]
        ELSE [recurse |-> FALSE, ret |-> MissingResult(missing_ok),
              control |-> control,
              trace |-> run \o (IF ~missing_ok
                                THEN [i \in 1..Len(errorLines) |->
                                         Ev("log_error", errorLines[i])]
                                     \o <<Ev("log_error", <<"Failed to run pg_controldata">>)>>
                                ELSE <<>>)]

\* the handles pg_controldata is called on
ControlSetups ==
    {[pgdata |-> <<"pgdata">>, pg_ctl |-> <<"pg_ctl">>],
     [pgdata |-> <<>>, pg_ctl |-> <<"pg_ctl">>],
     [pgdata |-> <<"pgdata">>, pg_ctl |-> <<>>]}

\* the answers of the pg_controldata tool: it reads the control file of a
\* data directory that exists, and now and then prints nothing
ControldataResults(dir) ==
    { Program(0, out, NULL) :
        out \in IF dir.exists
                THEN {NULL, <<"garbage">>} \cup {ControlText(v) : v \in ControlVersions}
                ELSE {} }
    \cup { Program(1, NULL, err) :
             err \in {NULL, <<"pg_controldata: could not open file">>,
                      <<"pg_controldata: could not open file", "\n", "No such file">>} }

\* one run of the tool in a call of pg_controldata: the call returns, or it
\* calls itself and waits for the next run
ControldataRun(in, runs, trace) ==
    \E prog \in ControldataResults(pgdata) :
      \E r \in {pg_controldata_run(keeper.pg_control_version, in.missing_ok, prog)} :
         /\ env' = [env EXCEPT !.LANG = <<"C">>]
         /\ IF r.recurse
            THEN /\ active' = [missing_ok |-> in.missing_ok, runs |-> runs + 1,
                               trace |-> trace \o r.trace]
                 /\ UNCHANGED <<keeper, last, pre, prev>>
            ELSE /\ active' = NoActive
                 /\ keeper' = [keeper EXCEPT !.pg_control_version = r.control]
                 /\ Record(CallOut("pg_controldata", in, [program |-> prog],
                                   r.ret, trace \o r.trace, [runs |-> runs + 1]))

\* pg_controldata is called
PgControldata ==
    /\ active = NoActive
    /\ \E pgSetup \in ControlSetups, missing_ok \in BOOLEAN :
         IF EmptySetup(pgSetup)
         THEN /\ Record(CallOut("pg_controldata",
                                [missing_ok |-> missing_ok, empty |-> TRUE],
                                [program |-> NotRun], FALSE,
                                <<Ev("log_debug", <<"empty pgSetup">>)>>,
                                [runs |-> 0]))
              /\ UNCHANGED <<env, keeper, active>>
         ELSE ControldataRun([missing_ok |-> missing_ok, empty |-> FALSE], 0, <<>>)
    /\ UNCHANGED <<files, pgdata, backupdir>>

\* the call pg_controldata made of itself runs the tool
PgControldataAgain ==
    /\ active # NoActive
    /\ active.runs < MaxRuns
    /\ ControldataRun([missing_ok |-> active.missing_ok, empty |-> FALSE],
                      active.runs, active.trace)
    /\ UNCHANGED <<files, pgdata, backupdir>>

InitControl ==
    /\ files = InitFiles
    /\ pgdata \in {NoDir, [EmptyDir EXCEPT !.base = "initdb"]}
    /\ backupdir = NoDir
    /\ env = NoEnv
    /\ keeper = NoKeeper
    /\ last = NoCall
    /\ prev = NoSummary
    /\ active = NoActive
    /\ pre = Snapshot

NextControl == PgControldata \/ PgControldataAgain

SpecControl == InitControl /\ [][NextControl]_vars

(***************************************************************************)
(* pg_ctl_version, pgctl.c:72-91, and config_find_pg_ctl, pgctl.c:171-211  *)
(***************************************************************************)
\* parse_version_number: the numeric portion of the output of
\* pg_ctl --version, from its first digit to the end of the digits and
\* dots that follow, NULL when there is none
parse_version_number(text) ==
    LET digits == {"0", "1", "2", "3", "4", "5", "6", "7", "8", "9"}
        RECURSIVE first(_)
        first(i) ==
            IF i > Len(text) THEN 0
            ELSE IF text[i] \in digits THEN i
            ELSE first(i + 1)
        RECURSIVE end(_)
        end(i) ==
            IF i < Len(text) /\ text[i + 1] \in digits \cup {"."}
            THEN end(i + 1)
            ELSE i
    IN  IF text = NULL \/ first(1) = 0
        THEN NULL
        ELSE SubSeq(text, first(1), end(first(1)))

\* pgctl.c:77-83: the probe that fails gives no version
ProbeFailed(prog) == prog.returnCode # 0

\* pgctl.c:72-91
pg_ctl_version(pg_ctl_path, prog) ==
    LET run == <<Ev("run_program", pg_ctl_path \o <<" --version">>)>>
    IN  IF ProbeFailed(prog)
        THEN [version |-> NULL,
              trace |-> run \o <<Ev("log_error", <<"Failed to run pg_ctl --version">>)>>]
        ELSE [version |-> parse_version_number(prog.stdout), trace |-> run]

\* strlcpy(dst, src, size): what dst holds afterwards
strlcpy(src, size) ==
    SubSeq(src, 1, IF Len(src) < size THEN Len(src) ELSE size - 1)

\* a "%s" of a log message given a NULL pointer
Formatted(str) == IF str = NULL THEN <<"(null)">> ELSE str

\* the handle with no binary and no version, pgctl.c:177-178
Unresolved(pgSetup) == [pgSetup EXCEPT !.pg_ctl = <<>>, !.pg_version = <<>>]

\* what pg_version may hold after a strlcpy from a NULL pointer that did
\* not end the process
Leftovers == {<<>>, <<"?">>}

\* pgctl.c:196-205: every binary found is probed and reported
RECURSIVE ReportAll(_, _, _)
ReportAll(pg_ctls, probes, i) ==
    IF i > Len(pg_ctls) THEN <<>>
    ELSE LET v == pg_ctl_version(pg_ctls[i], probes[i])
         IN  v.trace
             \o <<Ev("log_info", <<"Found">> \o pg_ctls[i] \o <<"for pg version">>
                                 \o Formatted(v.version))>>
             \o ReportAll(pg_ctls, probes, i + 1)

\* pgctl.c:180: a single binary is resolved, more than one resolves none
Resolves(n) == n = 1

\* the outcomes of config_find_pg_ctl, pg_ctls being what search_pathlist
\* found and probes what each pg_ctl --version did: whether the call
\* returned, its return value, the handle and what was logged.  With a
\* single binary and no version, strlcpy reads from a NULL pointer
\* (pgctl.c:188): the process ends there, or goes on with whatever was read.
config_find_pg_ctl(pgSetup, pg_ctls, probes) ==
    LET n == Len(pg_ctls)
        cleared == Unresolved(pgSetup)
    IN  IF Resolves(n)
        THEN LET v == pg_ctl_version(pg_ctls[1], probes[1])
                 found == v.trace
                          \o <<Ev("log_info", <<"Found pg_ctl for PostgreSQL">>
                                              \o Formatted(v.version)
                                              \o <<"at">> \o pg_ctls[1])>>
                 located == [cleared EXCEPT !.pg_ctl = strlcpy(pg_ctls[1], MAXPGPATH)]
             IN  IF v.version # NULL
                 THEN {[completed |-> TRUE, ret |-> n, trace |-> found,
                        pgSetup |-> [located EXCEPT !.pg_version =
                                        strlcpy(v.version, PG_VERSION_STRING_MAX)]]}
                 ELSE {[completed |-> FALSE, ret |-> 0, trace |-> found,
                        pgSetup |-> located]}
                      \cup {[completed |-> TRUE, ret |-> n, trace |-> found,
                             pgSetup |-> [located EXCEPT !.pg_version = left]] :
                            left \in Leftovers}
        ELSE IF n = 0
        THEN {[completed |-> TRUE, ret |-> n,
               trace |-> <<Ev("log_warn", <<"Failed to find pg_ctl in PATH">>)>>,
               pgSetup |-> cleared]}
        ELSE {[completed |-> TRUE, ret |-> n,
               trace |-> ReportAll(pg_ctls, probes, 1),
               pgSetup |-> cleared]}

(***************************************************************************)
(* Finding pg_ctl as an action.                                            *)
(***************************************************************************)
\* the places where a pg_ctl may be
PgCtlPaths == {<<"/", "a">>, <<"/", "b">>}

\* what search_pathlist may find in PATH
Pathlists == UNION {[1..n -> PgCtlPaths] : n \in 0..MaxFound}

\* what pg_ctl --version may do
VersionProbes ==
    {Program(0, <<"v", " ", "1", ".", "2", "b">>, NULL),
     Program(0, <<"v">>, NULL),
     Program(1, NULL, <<"out">>)}

\* a handle that was not resolved yet
NoPgSetup == [pg_ctl |-> <<>>, pg_version |-> <<>>]

ConfigFindPgCtl ==
    /\ \E pg_ctls \in Pathlists :
         \E probes \in [1..Len(pg_ctls) -> VersionProbes] :
            \E r \in config_find_pg_ctl(keeper.pgSetup, pg_ctls, probes) :
               /\ keeper' = [keeper EXCEPT !.pgSetup = r.pgSetup]
               /\ Record(CallOut("config_find_pg_ctl",
                                 [pgSetup |-> keeper.pgSetup],
                                 [pg_ctls |-> pg_ctls, probes |-> probes],
                                 r.ret, r.trace, [completed |-> r.completed]))
    /\ UNCHANGED <<files, pgdata, backupdir, env, active>>

InitFind ==
    /\ files = InitFiles
    /\ pgdata = NoDir
    /\ backupdir = NoDir
    /\ env = NoEnv
    /\ keeper = [pgSetup |-> NoPgSetup]
    /\ last = NoCall
    /\ prev = NoSummary
    /\ active = NoActive
    /\ pre = Snapshot

NextFind == ConfigFindPgCtl

SpecFind == InitFind /\ [][NextFind]_vars

(***************************************************************************)
(* Start and stop disambiguation.                                          *)
(***************************************************************************)
StartFailedButRunning ==
    /\ last.op = "pg_ctl_start"
    /\ last.ext.program.returnCode # 0
    /\ last.ext.statusProgram.returnCode = 0

\* C1: when pg_ctl start exits non-zero and the pg_ctl status that follows
\* exits 0, pg_ctl_start returns true and startup.log is what it was before
\* the call followed by the captured standard output of the failed start,
\* whatever append_to_file answers.
C1_StartReclassifiedAndLogged ==
    StartFailedButRunning =>
        /\ last.ret = TRUE
        /\ pgdata.startup_log.lines =
               pre.pgdata.startup_log.lines
               \o (IF last.ext.program.stdout # NULL
                   THEN <<last.ext.program.stdout>> ELSE <<>>)

StopFailed ==
    /\ last.op = "pg_ctl_stop"
    /\ last.ext.program.returnCode # 0

StatusProbes(trace) == Places(trace, Ev("run_program", <<"pg_ctl status">>))

\* C2: when pg_ctl stop exits non-zero and the data directory exists,
\* pg_ctl_stop returns true exactly when pg_ctl status exits with
\* PROGRAM_NOT_RUNNING (3); status 0 and every other code make it fail.
C2_StopSuccessIffNotRunning ==
    (StopFailed /\ pre.pgdata.exists) =>
        /\ StatusProbes(last.trace) # {}
        /\ last.ret = (last.ext.statusProgram.returnCode = PROGRAM_NOT_RUNNING)

C2_Witness ==
    /\ StopFailed
    /\ pre.pgdata.exists
    /\ last.ext.statusProgram.returnCode = 4
    /\ last.ret = FALSE

\* C3: when pg_ctl stop exits non-zero and the data directory does not
\* exist, pg_ctl_stop returns true and never runs pg_ctl status; when
\* pg_ctl stop exits 0 it returns true having made no other external call,
\* neither the status probe nor the directory check.
C3_StopWithoutProbe ==
    /\ (StopFailed /\ ~pre.pgdata.exists) =>
            (last.ret = TRUE /\ StatusProbes(last.trace) = {})
    /\ (last.op = "pg_ctl_stop" /\ last.ext.program.returnCode = 0) =>
            (last.ret = TRUE
             /\ last.trace = <<Ev("run_program", <<"pg_ctl stop">>)>>)

C3_Witness ==
    /\ StopFailed
    /\ ~pre.pgdata.exists
    /\ last.ret = TRUE
    /\ Places(last.trace, Ev("directory_exists", <<"pgdata">>)) # {}
    /\ StatusProbes(last.trace) = {}

(***************************************************************************)
(* Idempotency of the settings-file writer and of the config includer.     *)
(***************************************************************************)
Writes(trace) == Len(Events(trace, "write_file"))

\* the second of two calls in a row with the same path, settings and handle
EnsuredAgain ==
    /\ last.op = "ensure_default_settings_file_exists"
    /\ prev.repeat

\* the content the last call of the settings-file writer wanted in the file
Wanted == DefaultConfContents(last.in.settings, last.in.pgSetup)

\* C4 as stated: two successful calls in a row with the same path, settings
\* and handle perform exactly one disk write in total, made by the first
\* call, and the second call leaves the file as it was.
C4_ExactlyOneWrite ==
    (EnsuredAgain /\ prev.ret /\ last.ret) =>
        /\ prev.writes + Writes(last.trace) = 1
        /\ Writes(last.trace) = 0
        /\ files = pre.files

\* C4 as amended: two calls in a row with the same path, settings and
\* handle, the first of them successful, perform at most one disk write in
\* total: the second performs none and leaves the file as it was.  A
\* successful call writes exactly when the file did not hold the rendered
\* content before it, so the first call writes nothing either when the file
\* was already up to date.
C4_AtMostOneWrite ==
    /\ (EnsuredAgain /\ prev.ret) =>
            /\ prev.writes <= 1
            /\ Writes(last.trace) = 0
            /\ files = pre.files
    /\ (last.op = "ensure_default_settings_file_exists" /\ last.ret) =>
            /\ Writes(last.trace) =
                  (IF pre.files[last.in.configFilePath] = FileOf(Wanted) THEN 0 ELSE 1)
            /\ files[last.in.configFilePath] = FileOf(Wanted)

C4_Witness ==
    /\ EnsuredAgain
    /\ prev.ret
    /\ prev.writes = 1
    /\ last.ret
    /\ Writes(last.trace) = 0
    /\ files[AUTOCTL_DEFAULTS_CONF_FILENAME] = FileOf(Wanted)

IncludeCalled == last.op = "pg_include_config"

\* C5: after a successful pg_include_config the target file holds exactly
\* one line that is the include directive, however many successful calls
\* with that directive came before; and a call that reads a file in which
\* the directive is already present returns true and writes nothing.
C5_IncludedOnce ==
    /\ (IncludeCalled /\ last.ret) =>
            IncludeCount(files[last.in.configFilePath].lines,
                         last.in.include.regex) = 1
    /\ (IncludeCalled /\ last.ext.io.read
        /\ IncludeCount(pre.files[last.in.configFilePath].lines,
                        last.in.include.regex) >= 1) =>
            /\ last.ret
            /\ Writes(last.trace) = 0
            /\ files = pre.files

C5_Witness ==
    /\ IncludeCalled
    /\ prev.repeat /\ prev.ret /\ prev.writes = 1
    /\ last.ret
    /\ Writes(last.trace) = 0
    /\ IncludeCount(files[POSTGRESQL_CONF].lines, last.in.include.regex) = 1
    /\ Len(files[POSTGRESQL_CONF].lines) > 1

(***************************************************************************)
(* Escaping.                                                               *)
(***************************************************************************)
\* every doubled quote made one
RECURSIVE Collapse(_)
Collapse(s) ==
    IF s = <<>> THEN <<>>
    ELSE IF Len(s) >= 2 /\ s[1] = Quote /\ s[2] = Quote
    THEN <<Quote>> \o Collapse(SubSeq(s, 3, Len(s)))
    ELSE <<s[1]>> \o Collapse(Tail(s))

\* a string without its first and last character
Stripped(s) == SubSeq(s, 2, Len(s) - 1)

Escaped == last.op = "escape_recovery_conf_string" /\ last.ret

\* C6: whenever escape_recovery_conf_string returns true, the string in
\* destination begins and ends with a single quote, and without those two
\* quotes and with every doubled quote made one it is the input.
C6_EscapeRoundTrip ==
    Escaped =>
        /\ Len(last.out) >= 2
        /\ last.out[1] = Quote
        /\ last.out[Len(last.out)] = Quote
        /\ Collapse(Stripped(last.out)) = last.in.recoveryConfString

\* C6 happens: a string with a quote and another character was escaped, in
\* a buffer with room for it, and the quote was doubled
C6_Witness ==
    /\ Escaped
    /\ last.in.recoveryConfString = <<"a", Quote>>
    /\ ~last.ext.overflow
    /\ last.out = <<Quote, "a", Quote, Quote, Quote>>

(***************************************************************************)
(* Standby setup: the version boundary and the order of the writes.        *)
(***************************************************************************)
StandbySetup == last.op = "pg_setup_standby_mode"

RecoveryConfWrites(trace) == Places(trace, Ev("write_file", <<"recovery.conf">>))
StandbySignalWrites(trace) == Places(trace, Ev("write_file", <<"standby.signal">>))

\* the last call took the recovery.conf side and stayed away from standby.signal
LegacySide ==
    /\ RecoveryConfWrites(last.trace) # {}
    /\ StandbySignalWrites(last.trace) = {}
    /\ pgdata.standby_signal = pre.pgdata.standby_signal

\* the last call took the standby.signal side and stayed away from recovery.conf
SignalSide ==
    /\ StandbySignalWrites(last.trace) # {}
    /\ RecoveryConfWrites(last.trace) = {}
    /\ pgdata.recovery_conf = pre.pgdata.recovery_conf

\* C7, as stated: for every control version below 1200 a call of
\* pg_setup_standby_mode writes recovery.conf and never creates
\* standby.signal, and for every control version at or above 1200 it creates
\* standby.signal and never writes recovery.conf.  Read generously: no
\* primitive fails, no buffer is overrun, and writing is issuing the write.
C7_VersionSelectsFile ==
    (StandbySetup /\ last.ext.fault = NoFault /\ ~last.out.overflow) =>
        IF last.in.pg_control_version < PG12_CONTROL_VERSION
        THEN LegacySide
        ELSE SignalSide

\* C7, amended: a call whose primary connection string could not be prepared
\* fails without writing anything; a call whose connection string was
\* prepared, and in which no allocation fails, takes the recovery.conf side
\* below 1200 and the standby.signal side at or above 1200, and a successful
\* one leaves the file of its side: recovery.conf with its four lines, or an
\* empty standby.signal.
C7_VersionSelectsFileWhenPrepared ==
    StandbySetup =>
        /\ ~last.out.ret =>
              /\ ~last.ret
              /\ last.trace = last.out.trace
              /\ Writes(last.trace) = 0
              /\ files = pre.files /\ pgdata = pre.pgdata
        /\ (last.out.ret /\ last.ext.fault # <<"recovery", "mem">>) =>
              IF last.in.pg_control_version < PG12_CONTROL_VERSION
              THEN /\ LegacySide
                   /\ files = pre.files
                   /\ last.ret =>
                         pgdata.recovery_conf =
                            FileOf(RecoveryConfContents(
                                       last.out.primaryConnInfo,
                                       last.in.replicationSource.slotName))
              ELSE /\ SignalSide
                   /\ last.ret => pgdata.standby_signal = FileOf(<<>>)

\* C7 happens: just below the threshold a call has left recovery.conf, and no
\* standby.signal
C7_Witness ==
    /\ StandbySetup
    /\ last.in.pg_control_version = PG12_CONTROL_VERSION - 1
    /\ last.ret
    /\ pgdata.recovery_conf.exists
    /\ ~pgdata.standby_signal.exists

\* the last call went through pg_write_standby_signal
SignalFlow ==
    /\ StandbySetup
    /\ last.in.pg_control_version >= PG12_CONTROL_VERSION
    /\ last.out.ret

\* the write of standby.signal failed
SignalWriteFailed ==
    \/ last.ext.fault = <<"signal", "write">>
    \/ ~pre.pgdata.exists

\* C10: in the standby.signal flow, standby.signal is written before any
\* write to the standby settings file or to a configuration file; when the
\* write of standby.signal fails the call fails and nothing else is written;
\* when the settings step or the include step fails, the call fails and
\* standby.signal exists.
C10_SignalFirst ==
    SignalFlow =>
        /\ \A i \in 1..Len(last.trace) :
              (last.trace[i].ev = "write_file" /\ i \notin StandbySignalWrites(last.trace))
                 => \E j \in StandbySignalWrites(last.trace) : j < i
        /\ SignalWriteFailed =>
              /\ ~last.ret
              /\ Writes(last.trace) = 1
              /\ files = pre.files /\ pgdata = pre.pgdata
        /\ last.ext.fault[1] \in {"settings", "include"} => ~last.ret
        /\ (~SignalWriteFailed /\ ~last.ret) =>
              /\ last.ext.fault[1] \in {"settings", "include"}
              /\ pgdata.standby_signal = FileOf(<<>>)

\* C10 happens: the include step failed after the settings file was written,
\* and standby.signal is there
C10_Witness ==
    /\ SignalFlow
    /\ last.ext.fault[1] = "include"
    /\ ~last.ret
    /\ ~pre.pgdata.standby_signal.exists
    /\ pgdata.standby_signal.exists
    /\ files[AUTOCTL_STANDBY_CONF_FILENAME].exists

(***************************************************************************)
(* Base backup: the substitution of the data directory.                    *)
(***************************************************************************)
BackupCalled == last.op = "pg_basebackup"

\* the tool ran, and exited with 0 or not
ToolExited == BackupCalled /\ last.ext.program # NotRun
ToolSucceeded == ToolExited /\ last.ext.program.returnCode = 0

Removes(trace) == Places(trace, Ev("rmtree", <<"pgdata">>))
Renames(trace) == Places(trace, Ev("rename", <<"backupdir", "pgdata">>))

\* the data directory holds what the tool staged, and what was there is gone
Substituted ==
    /\ pgdata = last.ext.staged
    /\ pre.pgdata.exists => Removes(last.trace) # {}

\* C8, as stated: whenever the pg_basebackup tool exits with code 0, after
\* pg_basebackup returns the data directory that was there is gone and the
\* data directory holds what was staged in the backup directory.
C8_SubstitutedOnToolSuccess == ToolSucceeded => Substituted

\* C8, amended: whenever the tool exits with code 0 and pg_basebackup returns
\* true, the data directory that was there is gone, the data directory holds
\* what was staged and the backup directory is no more; when pg_basebackup
\* returns false after the tool exited with 0, the removal of the data
\* directory or the rename failed, and what was staged is still in the backup
\* directory.
C8_SubstitutedOnSuccess ==
    ToolSucceeded =>
        /\ last.ret => (Substituted /\ ~backupdir.exists)
        /\ ~last.ret =>
              /\ backupdir = last.ext.staged
              /\ \/ last.ext.rmtree = -1 /\ pgdata = last.ext.removed
                 \/ last.ext.rename = -1 /\ ~pgdata.exists

\* C8 happens: a data directory that existed was replaced by a staged backup
C8_Witness ==
    /\ ToolSucceeded
    /\ last.ret
    /\ pre.pgdata.exists
    /\ pre.pgdata # pgdata
    /\ pgdata = last.ext.staged

\* C9: whenever the pg_basebackup tool exits non-zero, pg_basebackup returns
\* false, the data directory is as it was (no rmtree, no rename, same
\* content), and the backup directory exists.
C9_IntactOnToolFailure ==
    (ToolExited /\ last.ext.program.returnCode # 0) =>
        /\ ~last.ret
        /\ pgdata = pre.pgdata
        /\ Removes(last.trace) = {} /\ Renames(last.trace) = {}
        /\ backupdir.exists

\* C9 happens: the tool failed on a node that has a data directory
C9_Witness ==
    /\ ToolExited
    /\ last.ext.program.returnCode # 0
    /\ pre.pgdata.exists
    /\ pgdata = pre.pgdata
    /\ backupdir = PartialBackup

(***************************************************************************)
(* Standby setup: the include from the main configuration file.            *)
(***************************************************************************)
\* the file holds a line that is the include directive of the standby
\* settings file
IncludesStandbyConf(f) ==
    f.exists /\ regexp_first_match(f.lines, AUTOCTL_SB_CONF_INCLUDE_REGEX) # NULL

\* C11: after pg_setup_standby_mode succeeds for a control version at or
\* above 1200, the main configuration file (configFilePath) holds the
\* include directive for postgresql-auto-failover-standby.conf.  Read
\* for a main configuration file that exists and a connection string that
\* overran no buffer.
C11_MainConfIncludesStandbyConf ==
    (/\ SignalFlow /\ last.ret /\ ~last.out.overflow
     /\ pre.files[last.in.configFilePath].exists) =>
        IncludesStandbyConf(files[last.in.configFilePath])

(***************************************************************************)
(* Control data: the retry on empty output, the tool that fails.           *)
(***************************************************************************)
ControldataReturned == last.op = "pg_controldata"

\* C12: a single pg_controldata call runs the tool at most twice, whatever
\* the tool answers, empty output on every run included: neither a call that
\* has returned nor a call under way has run the tool more than twice.
C12_AtMostTwoRuns ==
    /\ active.runs <= 2
    /\ ControldataReturned => last.out.runs <= 2

\* the tool exited non-zero in the last call
ControldataToolFailed ==
    /\ ControldataReturned
    /\ last.ext.program # NotRun
    /\ last.ext.program.returnCode # 0

\* C16: when the tool exits non-zero, pg_controldata returns false when
\* missing_ok is false and true when missing_ok is true; that run of the
\* tool is the last one of the call (no retry), and the control data of the
\* handle is as it was.
C16_ToolFailureReturnsMissingOk ==
    ControldataToolFailed =>
        LET runs == Places(last.trace, Ev("run_program", <<"pg_controldata">>))
            failed == CHOOSE i \in runs : \A j \in runs : j <= i
        IN  /\ last.ret = last.in.missing_ok
            /\ Cardinality(runs) = last.out.runs
            /\ \A i \in 1..Len(last.trace) :
                  i > failed => last.trace[i].ev = "log_error"
            /\ keeper = pre.keeper

\* C16 happens: on a handle with control data, the tool failed at its first
\* run, with missing_ok, and the call returned true
C16_Witness ==
    /\ ControldataToolFailed
    /\ last.in.missing_ok
    /\ last.ret
    /\ last.out.runs = 1
    /\ keeper.pg_control_version # 0

(***************************************************************************)
(* Escaping: the capacity of the destination.                              *)
(***************************************************************************)
\* C13: for every input string and every destinationSize,
\* escape_recovery_conf_string returns false or leaves the whole escaped
\* string and its terminator within the first destinationSize bytes; it
\* never writes at an index >= destinationSize.
C13_WritesWithinCapacity ==
    last.op = "escape_recovery_conf_string" =>
        /\ ~last.ext.overflow
        /\ last.ret =>
              Len(EscapeWrites(last.in.destinationSize,
                               last.in.recoveryConfString).written)
                 <= last.in.destinationSize

(***************************************************************************)
(* Base backup and rewind: the password, the staging directory.            *)
(***************************************************************************)
\* the last call spawned the pg_basebackup or the pg_rewind tool
ToolSpawned ==
    /\ last.op \in {"pg_basebackup", "pg_rewind"}
    /\ last.ext.program # NotRun

\* the places of the trace where a tool is spawned, a variable is set
Spawns(trace) == {i \in 1..Len(trace) : trace[i].ev = "run_program"}
PasswordSets(trace) == Places(trace, Ev("setenv", <<"PGPASSWORD">>))

\* the characters of a password, none for no password
PasswordChars(password) ==
    IF password = NULL THEN {} ELSE {password[i] : i \in 1..Len(password)}

C19_StagingEmptiedFirst ==
    BackupCalled =>
        /\ last.trace[1] = Ev("ensure_empty_dir", <<"backupdir">>)
        /\ \A i \in Spawns(last.trace) : i > 1
        /\ ~last.ext.ensure_empty_dir =>
              /\ ~last.ret
              /\ Spawns(last.trace) = {}
              /\ pgdata = pre.pgdata
        /\ last.ret =>
              /\ pgdata = last.ext.staged
              /\ pgdata.standby_signal = Absent /\ pgdata.startup_log = Absent

\* C19 happens: a backup was installed from a backup directory that held
\* the files of an earlier call
C19_Witness ==
    /\ BackupCalled
    /\ last.ret
    /\ pre.backupdir.standby_signal.exists
    /\ pgdata = last.ext.staged

(***************************************************************************)
(* Start and stop: when the probe runs, what is logged.                    *)
(***************************************************************************)
StartCalled == last.op = "pg_ctl_start"

\* C15: pg_ctl_start runs pg_ctl status exactly when pg_ctl start exits
\* non-zero, and it returns false exactly when pg_ctl start exits non-zero
\* and pg_ctl status exits with a non-zero code, whichever; it returns true
\* in every other case.
C15_StartFailsIffBothFail ==
    StartCalled =>
        /\ (StatusProbes(last.trace) # {}) <=> (last.ext.program.returnCode # 0)
        /\ (last.ext.statusProgram # NotRun) <=> (last.ext.program.returnCode # 0)
        /\ ~last.ret <=> /\ last.ext.program.returnCode # 0
                         /\ last.ext.statusProgram.returnCode # 0

\* C15 happens: the start failed and the status is neither 0 nor the code of
\* a server that is not running
C15_Witness ==
    /\ StartCalled
    /\ last.ext.program.returnCode # 0
    /\ last.ext.statusProgram.returnCode \notin {0, PROGRAM_NOT_RUNNING}
    /\ ~last.ret
    /\ Cardinality(StatusProbes(last.trace)) = 1

\* the text is in a message the call logged, when there is a text
OutputLogged(text, trace) ==
    text # NULL =>
        \E i \in 1..Len(trace) :
            /\ trace[i].ev \in {"log_info", "log_warn", "log_error"}
            /\ trace[i].what = text

\* a stop that failed and is reported as a success
StopReclassifiedAsSuccess ==
    /\ last.op = "pg_ctl_stop"
    /\ last.ext.program.returnCode # 0
    /\ last.ret

\* C18: when pg_ctl start or pg_ctl stop exits non-zero and the call returns
\* true all the same, the output captured from that command is logged by the
\* call: the standard output of the start (all its output goes there), the
\* standard output and the standard error of the stop.
C18_ReclassifiedOutputLogged ==
    /\ StartFailedButRunning => OutputLogged(last.ext.program.stdout, last.trace)
    /\ StopReclassifiedAsSuccess =>
          /\ OutputLogged(last.ext.program.stdout, last.trace)
          /\ OutputLogged(last.ext.program.stderr, last.trace)

(***************************************************************************)
(* The settings file: a setting without a value.                           *)
(***************************************************************************)
\* the settings of the last call that have no value and are not replaced by
\* a value of the handle
Valueless ==
    {i \in 1..Len(last.in.settings) :
        /\ last.in.settings[i].name \notin {"listen_addresses", "port"}
        /\ last.in.settings[i].value = NULL}

\* C17: when a setting other than listen_addresses and port has a NULL
\* value, wherever it is in the list, ensure_default_settings_file_exists
\* returns false and the file is as it was: no file primitive is called.
C17_ValuelessSettingRejected ==
    (last.op = "ensure_default_settings_file_exists" /\ Valueless # {}) =>
        /\ ~last.ret
        /\ files = pre.files
        /\ \A i \in 1..Len(last.trace) :
              last.trace[i].ev \notin {"file_exists", "read_file", "write_file"}

\* C17 happens: the setting without a value comes second, and the file that
\* an earlier call wrote is still what it was
C17_Witness ==
    /\ last.op = "ensure_default_settings_file_exists"
    /\ 2 \in Valueless /\ 1 \notin Valueless
    /\ ~last.ret
    /\ pre.files[last.in.configFilePath].exists
    /\ files[last.in.configFilePath] = pre.files[last.in.configFilePath]

(***************************************************************************)
(* The include directive: where it goes.                                   *)
(***************************************************************************)
\* the file pg_include_config was called on, before the call
IncludeTarget == pre.files[last.in.configFilePath]

\* the call read the file and found no line that is the directive
NothingIncluded ==
    /\ IncludeCalled
    /\ IncludeTarget.exists /\ last.ext.io.read
    /\ IncludeCount(IncludeTarget.lines, last.in.include.regex) = 0

\* C20: when no line matches the pattern, a pg_include_config that returns
\* true has written the file once, as the include line and its comment
\* followed by the whole content the file had, and one that returns false
\* has left the file as it was; when the file cannot be read the call
\* returns false and writes nothing.
C20_IncludePrepended ==
    /\ (NothingIncluded /\ last.ret) =>
          /\ Writes(last.trace) = 1
          /\ files[last.in.configFilePath].lines =
                <<<<last.in.include.line, last.in.include.comment>>>>
                \o IncludeTarget.lines
          /\ \A path \in DOMAIN files :
                path # last.in.configFilePath => files[path] = pre.files[path]
    /\ (NothingIncluded /\ ~last.ret) => files = pre.files
    /\ (IncludeCalled /\ ~(IncludeTarget.exists /\ last.ext.io.read)) =>
          /\ ~last.ret
          /\ Writes(last.trace) = 0
          /\ files = pre.files

\* C20 happens: the directive was put before the line the file had
C20_Witness ==
    /\ NothingIncluded
    /\ last.ret
    /\ Len(IncludeTarget.lines) > 0
    /\ files[last.in.configFilePath].lines[1][1] = last.in.include.line
    /\ files[last.in.configFilePath].lines[2] = IncludeTarget.lines[1]

(***************************************************************************)
(* The standby settings file: what it holds.                               *)
(***************************************************************************)
\* the line is name = value for that name
IsSettingOf(line, name) ==
    /\ Len(line) > 2
    /\ line[1] = name
    /\ line[2] = " = "

\* C21: after pg_setup_standby_mode succeeds in the standby.signal form,
\* postgresql-auto-failover-standby.conf holds four lines and no more: the
\* banner comment first, then primary_conninfo, primary_slot_name and
\* recovery_target_timeline as name = value lines, in that order.  Read for
\* a connection string that overran no buffer.
C21_StandbyConfFormat ==
    (SignalFlow /\ last.ret /\ ~last.out.overflow) =>
        LET f == files[AUTOCTL_STANDBY_CONF_FILENAME]
        IN  /\ f.exists
            /\ Len(f.lines) = 4
            /\ f.lines[1] = <<"# Settings by pg_auto_failover">>
            /\ IsSettingOf(f.lines[2], "primary_conninfo")
            /\ IsSettingOf(f.lines[3], "primary_slot_name")
            /\ IsSettingOf(f.lines[4], "recovery_target_timeline")

(***************************************************************************)
(* The primary connection string: its fields.                              *)
(***************************************************************************)
\* a value between single quotes, every quote of it doubled
RECURSIVE Doubled(_)
Doubled(value) ==
    IF value = <<>> THEN <<>>
    ELSE EscapedChar(Head(value)) \o Doubled(Tail(value))

FieldEscaped(value) == <<Quote>> \o Doubled(value) \o <<Quote>>

\* the forms of a field value that keep it one value: the escaped one, and
\* the value as it is when it has no quote and no space
FieldForms(value) ==
    {FieldEscaped(value)}
    \cup (IF \E i \in 1..Len(value) : value[i] \in {Quote, " "} THEN {} ELSE {value})

\* the connection strings that hold the fields of a replication source,
\* each one delimited
DelimitedConnInfos(source) ==
    { <<"h", "o", "s", "t", "=">> \o h
      \o <<" ", "p", "o", "r", "t", "=">> \o p
      \o <<" ", "u", "s", "e", "r", "=">> \o u
      \o (IF source.password = NULL THEN <<>>
          ELSE <<" ", "p", "a", "s", "s", "w", "o", "r", "d", "=">> \o w) :
      h \in FieldForms(source.primaryNode.host),
      p \in FieldForms(Digits(source.primaryNode.port)),
      u \in FieldForms(source.userName),
      w \in FieldForms(IF source.password = NULL THEN <<>> ELSE source.password) }

\* C22: the primary connection string that was prepared is, under its outer
\* layer of single quotes, the host, port and user fields, and the password
\* field exactly when a password is supplied, with every value that holds a
\* single quote or a space escaped on its own, so that it is still one
\* field value.  Read for a connection string that overran no buffer.
C22_ConnInfoFieldsEscaped ==
    (StandbySetup /\ last.out.ret /\ ~last.out.overflow) =>
        /\ Len(last.out.primaryConnInfo) >= 2
        /\ last.out.primaryConnInfo[1] = Quote
        /\ last.out.primaryConnInfo[Len(last.out.primaryConnInfo)] = Quote
        /\ Collapse(Stripped(last.out.primaryConnInfo))
              \in DelimitedConnInfos(last.in.replicationSource)

(***************************************************************************)
(* Finding pg_ctl: what the handle holds afterwards.                       *)
(***************************************************************************)
FindCalled == last.op = "config_find_pg_ctl"

\* the version the probe of the single binary found gave, NULL when none
ProbedVersion ==
    pg_ctl_version(last.ext.pg_ctls[1], last.ext.probes[1]).version

\* C23: config_find_pg_ctl returns the number of binaries found; with a
\* single binary, and whatever its version probe did, the call returns and
\* the handle holds the path of that binary and the version the probe gave;
\* with none or several, the path and the version of the handle are empty
\* after the call, whatever they were before.
C23_FindResolvesSingle ==
    FindCalled =>
        /\ last.out.completed
        /\ last.ret = Len(last.ext.pg_ctls)
        /\ Len(last.ext.pg_ctls) = 1 =>
              /\ keeper.pgSetup.pg_ctl = last.ext.pg_ctls[1]
              /\ ProbedVersion # NULL => keeper.pgSetup.pg_version = ProbedVersion
        /\ Len(last.ext.pg_ctls) # 1 =>
              /\ keeper.pgSetup.pg_ctl = <<>>
              /\ keeper.pgSetup.pg_version = <<>>

(***************************************************************************)
(* The password in the environment, from one call to the next.             *)
(***************************************************************************)
\* C24: the PGPASSWORD that the tool of a pg_basebackup or pg_rewind call
\* is spawned with is the password of that call, and nothing when the call
\* has no password: a password set by an earlier call of the process is not
\* seen.  The tool is spawned with the environment the call leaves.
C24_NoPasswordCarryOver ==
    ToolSpawned => env.PGPASSWORD = last.in.replication_password

(***************************************************************************)
(* The default settings: the settings file before the include.             *)
(***************************************************************************)
DefaultSettingsAdded == last.op = "pg_add_auto_failover_default_settings"

\* the places of the trace where a file is read, written or looked for
Touches(trace, path) ==
    {i \in 1..Len(trace) :
        /\ trace[i].ev \in {"file_exists", "read_file", "write_file"}
        /\ trace[i].what = <<path>>}

\* ensuring the settings file failed: a setting has no value, or a
\* primitive failed on the settings file
EnsureStepFailed ==
    \/ \E i \in 1..Len(last.in.settings) : IsBugSetting(last.in.settings[i])
    \/ last.ext.io1 # [read |-> TRUE, write |-> TRUE, mem |-> TRUE]

\* C25: pg_add_auto_failover_default_settings reads and writes
\* postgresql.conf only after postgresql-auto-failover.conf was ensured: by
\* then the settings file holds the whole rendered content and is touched
\* no more; when ensuring the settings file fails the call fails and
\* postgresql.conf is neither read nor written.
C25_SettingsBeforeInclude ==
    DefaultSettingsAdded =>
        /\ Touches(last.trace, last.in.configFilePath) # {} =>
              /\ files[AUTOCTL_DEFAULTS_CONF_FILENAME] =
                    FileOf(DefaultConfContents(last.in.settings, last.in.pgSetup))
              /\ \A i \in Touches(last.trace, AUTOCTL_DEFAULTS_CONF_FILENAME) :
                    \A j \in Touches(last.trace, last.in.configFilePath) : i < j
        /\ EnsureStepFailed =>
              /\ ~last.ret
              /\ Touches(last.trace, last.in.configFilePath) = {}
              /\ files[last.in.configFilePath] = pre.files[last.in.configFilePath]
        /\ ~EnsureStepFailed => Touches(last.trace, last.in.configFilePath) # {}

\* C25 happens: the write of the settings file failed, and a postgresql.conf
\* without the directive was left alone
C25_Witness ==
    /\ DefaultSettingsAdded
    /\ ~last.ext.io1.write
    /\ ~last.ret
    /\ pre.files[POSTGRESQL_CONF].exists
    /\ IncludeCount(pre.files[POSTGRESQL_CONF].lines, AUTOCTL_CONF_INCLUDE_REGEX) = 0
    /\ files[POSTGRESQL_CONF] = pre.files[POSTGRESQL_CONF]
    /\ Touches(last.trace, POSTGRESQL_CONF) = {}

(***************************************************************************)
(* Standby setup, twice.                                                   *)
(***************************************************************************)
\* the places of the trace where the file is written
WritesTo(trace, path) == Places(trace, Ev("write_file", <<path>>))

\* the last call is the second of two calls in a row with the same control
\* version, configuration file and replication source, in the standby.signal
\* form, the first of them successful
StandbySetupAgain ==
    /\ SignalFlow
    /\ prev.repeat /\ prev.ret
    /\ last.ext.fault = NoFault
    /\ ~last.out.overflow

\* C26: when pg_setup_standby_mode is called twice in a row with the same
\* inputs and a control version at or above 1200, and the first call
\* succeeded, the second call writes neither the standby settings file nor
\* the main configuration file, and both are as the first call left them.
C26_SecondSetupWritesNothing ==
    StandbySetupAgain =>
        /\ WritesTo(last.trace, AUTOCTL_STANDBY_CONF_FILENAME) = {}
        /\ WritesTo(last.trace, last.in.configFilePath) = {}
        /\ files = pre.files

====
